---- MODULE Spec2Model ----
(***************************************************************************)
(* Program Trace Optimisation (PTO): the record/replay tracer, the typed   *)
(* distributions and the trace operators of pto/core.                      *)
(*                                                                         *)
(* Dist objects live in a heap and are referred to by reference, as in the *)
(* Python code: a trace (dict name -> Dist) is a sequence of               *)
(* [name, ref] pairs in insertion order.  Random draws are choices the     *)
(* actions make with \E.                                                   *)
(***************************************************************************)
EXTENDS Integers, Sequences, FiniteSets, TLC

VARIABLES
    generator,  \* Op.generator: the generator callback the Op was built with
    heap,       \* the live Dist objects: Seq of [fun, args, val]
    pop,        \* the Solutions the caller holds: slot -> [full, pheno, geno]
    tracer,     \* the module-level Tracer: [active, input_trace, output_trace]
    rnd_tracer, \* RandomTraceable.tracer, the Tracer sampling calls go to
    thr,        \* per thread of control: the operator call in progress
    ret,        \* what the call that just finished returned (or raised)
    Name,       \* annotators.Name, the naming singleton: [stack, sequence]
    search      \* a hill_climber and the local variables of its __call__

vars == <<generator, heap, pop, tracer, rnd_tracer, thr, ret, Name, search>>

(***************************************************************************)
(* Bounds of the model.                                                    *)
(***************************************************************************)
NSlots == 2          \* Solutions the caller keeps at a time

Slots == 1..NSlots
Threads == {1}

(***************************************************************************)
(* Sequence helpers (Python list / dict primitives).                       *)
(***************************************************************************)
Range(s) == {s[i] : i \in DOMAIN s}

Min2(a, b) == IF a <= b THEN a ELSE b
Max2(a, b) == IF a >= b THEN a ELSE b
Abs(a) == IF a >= 0 THEN a ELSE -a

\* list.index(x): first position of x (0 if absent)
IndexOf(s, x) ==
    IF \E i \in DOMAIN s : s[i] = x
    THEN CHOOSE i \in DOMAIN s : s[i] = x /\ \A j \in 1..(i - 1) : s[j] # x
    ELSE 0

\* the list without its element at position i
RemoveAt(s, i) == [j \in 1..(Len(s) - 1) |-> IF j < i THEN s[j] ELSE s[j + 1]]

\* list.remove(x): drops the first occurrence
ListRemove(s, x) == IF IndexOf(s, x) = 0 THEN s ELSE RemoveAt(s, IndexOf(s, x))

\* dict primitives on a trace, a sequence of [name, ref] in insertion order
Keys(d) == [i \in DOMAIN d |-> d[i].name]
KeySet(d) == {d[i].name : i \in DOMAIN d}
Has(d, n) == \E i \in DOMAIN d : d[i].name = n
Get(d, n) == d[CHOOSE i \in DOMAIN d : d[i].name = n].ref
\* d[n] = r: an existing key keeps its position, a new key goes last
Put(d, n, r) ==
    IF Has(d, n)
    THEN [i \in DOMAIN d |-> IF d[i].name = n THEN [name |-> n, ref |-> r] ELSE d[i]]
    ELSE Append(d, [name |-> n, ref |-> r])

\* d1 | d2
RECURSIVE Merge(_, _)
Merge(d1, d2) ==
    IF d2 = <<>> THEN d1
    ELSE Merge(Put(d1, d2[1].name, d2[1].ref), Tail(d2))

(***************************************************************************)
(* Distributions.  A Dist is [fun, args, val]: fun is fun.__name__, args   *)
(* the positional arguments and val the held value.  Every value is held   *)
(* as a tuple of integers (a scalar v as <<v>>) and every argument         *)
(* likewise, so that Python's == between any two values is plain equality. *)
(* A real value is held exactly, as the fraction <<n, d>> in lowest terms  *)
(* with d > 0.                                                             *)
(***************************************************************************)
Scalar(v) == <<v>>

RECURSIVE GCD(_, _)
GCD(a, b) == IF b = 0 THEN a ELSE GCD(b, a % b)

\* the float n / d, for d > 0
Rat(n, d) == <<n \div GCD(Abs(n), d), d \div GCD(Abs(n), d)>>
RatLe(x, y) == x[1] * y[2] <= y[1] * x[2]
RatMin(x, y) == IF RatLe(x, y) THEN x ELSE y
RatMax(x, y) == IF RatLe(x, y) THEN y ELSE x
RatAdd(x, y) == Rat(x[1] * y[2] + y[1] * x[2], x[2] * y[2])
RatSub(x, y) == Rat(x[1] * y[2] - y[1] * x[2], x[2] * y[2])
RatAbs(x) == <<Abs(x[1]), x[2]>>

\* the build flag __debug__ (python without -O)
Debug == TRUE

\* rng_specs[fun].type
Kind(fun) ==
    CASE fun \in {"random", "uniform"} -> "real"
      [] fun \in {"randrange", "randint"} -> "int"
      [] fun = "choice" -> "cat"
      [] fun \in {"sample", "shuffle", "choices"} -> "seq"

\* rng_specs[random.random].params, rng_specs[random.uniform].params:
\* (min, max, range)
RealParams(fun, args) ==
    IF fun = "random" THEN [min |-> 0, max |-> 1, range |-> 1]
    ELSE [min |-> args[1][1], max |-> args[2][1], range |-> args[2][1] - args[1][1]]

\* rng_specs[random.randrange].params, rng_specs[random.randint].params:
\* (min, max, step)
IntParams(fun, args) ==
    IF fun = "randint" THEN [min |-> args[1][1], max |-> args[2][1], step |-> 1]
    ELSE IF Len(args) = 1 THEN [min |-> 0, max |-> args[1][1] - 1, step |-> 1]
    ELSE [min |-> args[1][1], max |-> args[2][1] - 1,
          step |-> IF Len(args) > 2 THEN args[3][1] ELSE 1]

\* rng_specs[random.choice].params: the candidate sequence
CatSeq(fun, args) == args[1]

\* rng_specs[random.sample].params, rng_specs[random.choices].params (k is
\* held as the second argument), rng_specs[shuffle].params: (sequence, k)
SeqParams(fun, args) ==
    IF fun = "shuffle" THEN [sequence |-> args[1], k |-> Len(args[1])]
    ELSE [sequence |-> args[1], k |-> args[2][1]]

\* the lists random.sample(population, k) can return
Arrangements(population, k) ==
    {[i \in 1..k |-> population[f[i]]] :
        f \in {g \in [1..k -> DOMAIN population] :
                  \A i, j \in 1..k : i # j => g[i] # g[j]}}

\* random.uniform(lo, hi) for lo <= hi returns any float between them: the
\* model draws from RealGrid + 1 evenly spaced points
RealGrid == 4

RealPoints(lo, hi) ==
    {RatAdd(lo, Rat((hi[1] * lo[2] - lo[1] * hi[2]) * k, hi[2] * lo[2] * RealGrid)) :
        k \in 0..RealGrid}

\* Dist.sample: the values fun(*args) can return
FreshVals(fun, args) ==
    CASE Kind(fun) = "real" ->
           RealPoints(Rat(RealParams(fun, args).min, 1), Rat(RealParams(fun, args).max, 1))
      [] Kind(fun) = "int" ->
           {Scalar(v) : v \in {w \in IntParams(fun, args).min..IntParams(fun, args).max :
                                  (w - IntParams(fun, args).min)
                                      % IntParams(fun, args).step = 0}}
      [] Kind(fun) = "cat" -> {Scalar(v) : v \in Range(CatSeq(fun, args))}
      [] Kind(fun) = "seq" ->
           IF fun = "choices"
           THEN {[i \in 1..SeqParams(fun, args).k |-> SeqParams(fun, args).sequence[f[i]]] :
                    f \in [1..SeqParams(fun, args).k
                             -> DOMAIN SeqParams(fun, args).sequence]}
           ELSE Arrangements(SeqParams(fun, args).sequence, SeqParams(fun, args).k)

\* Python's round(n / d) for d > 0: to nearest, ties to even
PyRound(n, d) ==
    LET q == n \div d
        r == n % d
    IN IF 2 * r < d THEN q
       ELSE IF 2 * r > d THEN q + 1
       ELSE IF q % 2 = 0 THEN q ELSE q + 1

\* Random_int.repair_val, for a value with (val - min) / step = n / d
IntRepairVal(p, n, d) ==
    Min2(Max2(p.min, p.min + PyRound(n, d) * p.step), p.max)

\* Random_real.repair_val
RealRepairVal(p, v) == RatMin(RatMax(Rat(p.min, 1), v), Rat(p.max, 1))

\* Counter(list1) - Counter(list2), as a list
RECURSIVE MultisetDiff(_, _)
MultisetDiff(list1, list2) ==
    IF list2 = <<>> THEN list1
    ELSE MultisetDiff(ListRemove(list1, list2[1]), Tail(list2))

\* Random_seq._replace_from()[fun.__name__]
ReplaceFrom(d) ==
    CASE d.fun = "shuffle" -> [pop |-> <<>>, with_repl |-> FALSE]
      [] d.fun = "sample" ->
           [pop |-> MultisetDiff(SeqParams(d.fun, d.args).sequence, d.val),
            with_repl |-> FALSE]
      [] d.fun = "choices" ->
           [pop |-> SeqParams(d.fun, d.args).sequence, with_repl |-> TRUE]

\* an outcome of a per-entry operator: it raised, or it returned the object
\* alias (one of its operands), or (alias = 0) a new copy of self holding val;
\* attempts counts the passes of the operator's retry loop, if it has one
Raised(err) == [raised |-> err, alias |-> 0, val |-> <<>>, attempts |-> 0]
NewCopy(v) == [raised |-> "", alias |-> 0, val |-> v, attempts |-> 0]
Operand(r) == [raised |-> "", alias |-> r, val |-> <<>>, attempts |-> 0]

\* Random_seq._swap_replace_mutation(seq, pop): the lists it can return
SwapReplaceMutation(seq, popl) ==
    LET swaps ==
            IF Len(seq) >= 2
            THEN {[seq EXCEPT ![ij[1]] = seq[ij[2]], ![ij[2]] = seq[ij[1]]] :
                     ij \in {p \in (DOMAIN seq) \X (DOMAIN seq) : p[1] # p[2]}}
            ELSE {seq}
        replaces ==
            IF popl # <<>>
            THEN {[seq EXCEPT ![idx] = popl[c]] :
                     idx \in DOMAIN seq, c \in DOMAIN popl}
            ELSE {seq}
    IN swaps \cup replaces

\* the loop of Random_seq._swap_replace_crossover from position i (1-based)
\* up to point; st = [cross_seq, pop], pop being the argument changed in place
RECURSIVE CrossLoop(_, _, _, _, _)
CrossLoop(st, seq2, with_repl, i, point) ==
    IF i > point THEN st
    ELSE
      LET cs == st.cross_seq
          rest == SubSeq(cs, i + 1, Len(cs))
      IN IF cs[i] = seq2[i] THEN CrossLoop(st, seq2, with_repl, i + 1, point)
         ELSE IF seq2[i] \in Range(rest) THEN
           LET j == i + IndexOf(rest, seq2[i])
           IN CrossLoop([st EXCEPT !.cross_seq = [cs EXCEPT ![i] = cs[j], ![j] = cs[i]]],
                        seq2, with_repl, i + 1, point)
         ELSE IF seq2[i] \in Range(st.pop) THEN
           CrossLoop([cross_seq |-> [cs EXCEPT ![i] = seq2[i]],
                      pop |-> IF with_repl THEN st.pop
                              ELSE Append(ListRemove(st.pop, seq2[i]), cs[i])],
                     seq2, with_repl, i + 1, point)
         ELSE CrossLoop(st, seq2, with_repl, i + 1, point)

\* Random_seq._swap_replace_crossover under @check_immutable, for a drawn
\* point: the list returned, or the decorator's AssertionError when pop, one
\* of the arguments, no longer prints as before.  debug is __debug__: under
\* python -O the decorator returns the function as it is.
SwapReplaceCrossoverIn(debug, seq1, seq2, popl, with_repl, point) ==
    LET st == CrossLoop([cross_seq |-> seq1, pop |-> popl],
                        seq2, with_repl, 1, point)
    IN IF debug /\ st.pop # popl THEN Raised("AssertionError")
       ELSE NewCopy(st.cross_seq)

SwapReplaceCrossover(seq1, seq2, popl, with_repl, point) ==
    SwapReplaceCrossoverIn(Debug, seq1, seq2, popl, with_repl, point)

(***************************************************************************)
(* Per-entry operators.  d, d1, d2 are Dist records, r, r1 .. heap         *)
(* references; each operator yields the set of its possible outcomes.      *)
(***************************************************************************)

\* for _ in range(10) of Random_int.mutation
MutationAttempts == 10

\* the loop of Random_int.mutation from pass number attempt on: the values
\* the offspring can end with, and the pass after which the loop was left
RECURSIVE IntMutationLoop(_, _, _)
IntMutationLoop(p, val, attempt) ==
    UNION {IF v # val \/ attempt = MutationAttempts
           THEN {[NewCopy(Scalar(v)) EXCEPT !.attempts = attempt]}
           ELSE IntMutationLoop(p, val, attempt + 1) :
              v \in {IntRepairVal(p, val + s * p.step - p.min, p.step) : s \in {-1, 1}}}

\* Random_real.mutation / Random_int.mutation / Random_cat.mutation /
\* Random_seq.mutation
Mutation(d) ==
    CASE Kind(d.fun) = "real" ->
           \* self.val + random.gauss(0, 0.1 * range), clamped: with a positive
           \* range any point of [min, max], with range 0 the clamped value
           LET p == RealParams(d.fun, d.args)
           IN IF p.range = 0 THEN {NewCopy(RealRepairVal(p, d.val))}
              ELSE {NewCopy(v) : v \in RealPoints(Rat(p.min, 1), Rat(p.max, 1))}
      [] Kind(d.fun) = "int" ->
           IntMutationLoop(IntParams(d.fun, d.args), d.val[1], 1)
      [] Kind(d.fun) = "cat" ->
           IF Cardinality(Range(CatSeq(d.fun, d.args))) >= 2
           THEN {NewCopy(Scalar(v)) : v \in Range(CatSeq(d.fun, d.args)) \ {d.val[1]}}
           ELSE {NewCopy(d.val)}
      [] Kind(d.fun) = "seq" ->
           IF d.val = <<>>
           THEN {NewCopy(d.val), Raised("ValueError")}
           ELSE {NewCopy(v) : v \in SwapReplaceMutation(d.val, ReplaceFrom(d).pop)}

\* Dist.crossover: random.choice([self, other])
BaseCrossover(r1, r2) == {Operand(r1), Operand(r2)}

\* Dist.convex_crossover: random.choice([self, other1, other2])
BaseConvexCrossover(r1, r2, r3) == {Operand(r1), Operand(r2), Operand(r3)}

\* Random_seq.crossover's call of _swap_replace_crossover on two values
SeqCrossIn(debug, d, seq1, seq2) ==
    IF Min2(Len(seq1), Len(seq2)) = 0 THEN {Raised("ValueError")}
    ELSE {SwapReplaceCrossoverIn(debug, seq1, seq2, ReplaceFrom(d).pop,
                                 ReplaceFrom(d).with_repl, point) :
             point \in 0..(Min2(Len(seq1), Len(seq2)) - 1)}

SeqCross(d, seq1, seq2) == SeqCrossIn(Debug, d, seq1, seq2)

\* Random_seq.convex_crossover for three entries of one function: both calls
\* take self._replace_from(), the pool of self's own value
SeqConvexIn(debug, d1, d2, d3) ==
    UNION {IF o.raised # "" THEN {o} ELSE SeqCrossIn(debug, d1, o.val, d3.val) :
              o \in SeqCrossIn(debug, d1, d1.val, d2.val)}

\* self.crossover(other), self = hp[r1], other = hp[r2]
Crossover(hp, r1, r2) ==
    LET d1 == hp[r1]
        d2 == hp[r2]
    IN IF d1.fun # d2.fun THEN BaseCrossover(r1, r2)
       ELSE CASE Kind(d1.fun) = "real" ->
                   {NewCopy(v) : v \in RealPoints(RatMin(d1.val, d2.val),
                                                  RatMax(d1.val, d2.val))}
              [] Kind(d1.fun) = "int" ->
                   {NewCopy(Scalar(v)) :
                       v \in Min2(d1.val[1], d2.val[1])..Max2(d1.val[1], d2.val[1])}
              [] Kind(d1.fun) = "cat" -> BaseCrossover(r1, r2)
              [] Kind(d1.fun) = "seq" -> SeqCross(d1, d1.val, d2.val)

\* self.convex_crossover(other1, other2)
ConvexCrossover(hp, r1, r2, r3) ==
    LET d1 == hp[r1]
        d2 == hp[r2]
        d3 == hp[r3]
    IN IF d1.fun # d2.fun \/ d1.fun # d3.fun THEN BaseConvexCrossover(r1, r2, r3)
       ELSE CASE Kind(d1.fun) = "real" ->
                   {NewCopy(v) :
                       v \in RealPoints(RatMin(d1.val, RatMin(d2.val, d3.val)),
                                        RatMax(d1.val, RatMax(d2.val, d3.val)))}
              [] Kind(d1.fun) = "int" ->
                   {NewCopy(Scalar(v)) :
                       v \in Min2(d1.val[1], Min2(d2.val[1], d3.val[1]))
                              ..Max2(d1.val[1], Max2(d2.val[1], d3.val[1]))}
              [] Kind(d1.fun) = "cat" -> BaseConvexCrossover(r1, r2, r3)
              [] Kind(d1.fun) = "seq" -> SeqConvexIn(Debug, d1, d2, d3)

\* A faulty variant: the operator writes its result into the operand.
ApplyOutcomeInPlace(hp, self, o) ==
    IF o.alias # 0 THEN [hp |-> hp, ref |-> o.alias]
    ELSE [hp |-> [hp EXCEPT ![self].val = o.val], ref |-> self]

\* the object an outcome stands for: offspring = copy(self); offspring.val = ...
ApplyOutcome(hp, self, o) ==
    IF o.alias # 0 THEN [hp |-> hp, ref |-> o.alias]
    ELSE [hp |-> Append(hp, [hp[self] EXCEPT !.val = o.val]), ref |-> Len(hp) + 1]

\* self.distance(other): a number num/den, the tuple _swap_replace_distance
\* returns, or an exception
DistNum(n, d) == [kind |-> "num", err |-> "", num |-> n, den |-> d]
DistTuple == [kind |-> "tuple", err |-> "", num |-> 0, den |-> 1]
DistRaise(e) == [kind |-> "raise", err |-> e, num |-> 0, den |-> 1]

\* the loop of Random_seq._swap_distance from position i (1-based) on
RECURSIVE SwapDistanceLoop(_, _, _, _)
SwapDistanceLoop(sequence, seq2, i, count) ==
    IF i > Min2(Len(sequence), Len(seq2)) THEN count
    ELSE IF seq2[i] \in Range(sequence) /\ sequence[i] # seq2[i]
    THEN LET j == IndexOf(sequence, seq2[i])
         IN SwapDistanceLoop([sequence EXCEPT ![i] = sequence[j], ![j] = sequence[i]],
                             seq2, i + 1, count + 1)
    ELSE SwapDistanceLoop(sequence, seq2, i + 1, count)

\* Random_seq._swap_distance
SwapDistance(seq1, seq2) == SwapDistanceLoop(seq1, seq2, 1, 0)

\* Random_seq._replace_distance
ReplaceDistance(seq1, seq2, seq_from) ==
    Cardinality({i \in 1..Min2(Len(seq1), Len(seq2)) :
                    seq1[i] # seq2[i] /\ seq2[i] \in Range(seq_from)})

\* Dist.distance: float(self != other)
BaseDistance(d1, d2) == DistNum(IF d1 = d2 THEN 0 ELSE 1, 1)

Distance(d1, d2) ==
    IF d1.fun # d2.fun THEN BaseDistance(d1, d2)
    ELSE CASE Kind(d1.fun) = "real" ->
                LET p == RealParams(d1.fun, d1.args)
                    diff == RatAbs(RatSub(d1.val, d2.val))
                IN IF p.range = 0 THEN DistRaise("ZeroDivisionError")
                   ELSE IF RatLe(Rat(p.range, 1), diff) THEN DistNum(1, 1)
                   ELSE DistNum(diff[1], diff[2] * p.range)
           [] Kind(d1.fun) = "int" ->
                LET p == IntParams(d1.fun, d1.args)
                    diff == Abs(d1.val[1] - d2.val[1])
                IN IF p.max - p.min = 0 THEN DistRaise("ZeroDivisionError")
                   ELSE IF diff >= p.max - p.min THEN DistNum(1, 1)
                   ELSE DistNum(diff, p.max - p.min)
           [] Kind(d1.fun) = "cat" -> BaseDistance(d1, d2)
           [] Kind(d1.fun) = "seq" ->
                CASE d1.fun = "shuffle" -> DistNum(SwapDistance(d1.val, d2.val), 1)
                  [] d1.fun = "sample" -> DistTuple
                  [] d1.fun = "choices" ->
                       DistNum(ReplaceDistance(d1.val, d2.val,
                                               SeqParams(d1.fun, d1.args).sequence), 1)

\* A faulty variant: repair always samples afresh.
RepairResampled(fun, args, other) == {NewCopy(v) : v \in FreshVals(fun, args)}

\* dist.repair(other) on a Dist just built by a sampling call (val is None):
\* the outcomes, as values the Dist then holds
Repair(fun, args, other) ==
    IF fun # other.fun THEN {NewCopy(v) : v \in FreshVals(fun, args)}
    ELSE CASE Kind(fun) = "real" ->
                LET p == RealParams(fun, args)
                    q == RealParams(other.fun, other.args)
                    offset == RatSub(other.val, Rat(q.min, 1))
                IN IF q.range = 0 THEN {Raised("ZeroDivisionError")}
                   ELSE {NewCopy(RealRepairVal(p,
                            RatAdd(Rat(offset[1] * p.range, offset[2] * q.range),
                                   Rat(p.min, 1))))}
           [] Kind(fun) = "int" ->
                LET p == IntParams(fun, args)
                    q == IntParams(other.fun, other.args)
                IN {NewCopy(Scalar(IntRepairVal(p, other.val[1] - q.min, q.step)))}
           [] Kind(fun) = "cat" ->
                LET seq == CatSeq(fun, args)
                    diff_seq == Range(seq) \ Range(CatSeq(other.fun, other.args))
                IN IF other.val[1] \in Range(seq) THEN {NewCopy(other.val)}
                   ELSE IF diff_seq # {} THEN {NewCopy(Scalar(v)) : v \in diff_seq}
                   ELSE {NewCopy(Scalar(v)) : v \in Range(seq)}
           [] Kind(fun) = "seq" ->
                \* shuffle and choices call _swap_crossover and _replace_crossover,
                \* which the class does not have; sample takes len(self.val) of
                \* the value None
                IF fun = "sample" THEN {Raised("TypeError")}
                ELSE {Raised("AttributeError")}

(***************************************************************************)
(* Tracer.                                                                 *)
(***************************************************************************)

\* no hill_climber has been built
NoSearch ==
    [pc |-> "off", better |-> "max", mutation |-> "", n_generation |-> 0, gen |-> 0,
     fitness_individual |-> 0, history |-> <<>>, evaluated |-> {}, stopped |-> FALSE]

\* _Name.__init__: an empty name stack and itertools.count()
NameInit == [stack |-> <<>>, sequence |-> 0]

\* Tracer.__init__
TracerInit == [active |-> FALSE, input_trace |-> <<>>, output_trace |-> <<>>]

\* A faulty variant: a recorded entry is never taken over as it is.
SampleBranchNoReuse(tr, hp, name, fun, args) ==
    IF ~tr.active THEN "bypass"
    ELSE IF Debug /\ Has(tr.output_trace, name) THEN "duplicate"
    ELSE IF Has(tr.input_trace, name) THEN "repair"
    ELSE "fresh"

\* A faulty variant: the name is not looked up in the output trace.
SampleBranchUnchecked(tr, hp, name, fun, args) ==
    IF ~tr.active THEN "bypass"
    ELSE IF Has(tr.input_trace, name)
         THEN IF hp[Get(tr.input_trace, name)].fun = fun
                 /\ hp[Get(tr.input_trace, name)].args = args
              THEN "reuse" ELSE "repair"
    ELSE "fresh"

\* how Tracer.sample(name, Dist(fun, *args)) settles the value: the branch it
\* takes and the outcomes of that branch
SampleBranch(tr, hp, name, fun, args) ==
    IF ~tr.active THEN "bypass"
    ELSE IF Debug /\ Has(tr.output_trace, name) THEN "duplicate"
    ELSE IF Has(tr.input_trace, name)
         THEN IF hp[Get(tr.input_trace, name)].fun = fun
                 /\ hp[Get(tr.input_trace, name)].args = args
              THEN "reuse" ELSE "repair"
    ELSE "fresh"

\* A faulty variant: a matching recorded entry is sampled again.
SampleOutcomesResampled(tr, hp, name, fun, args) ==
    LET b == SampleBranch(tr, hp, name, fun, args)
    IN CASE b = "bypass" -> {NewCopy(v) : v \in FreshVals(fun, args)}
         [] b = "duplicate" -> {Raised("ValueError")}
         [] b = "reuse" -> {NewCopy(v) : v \in FreshVals(fun, args)}
         [] b = "repair" -> Repair(fun, args, hp[Get(tr.input_trace, name)])
         [] b = "fresh" -> {NewCopy(v) : v \in FreshVals(fun, args)}

SampleOutcomes(tr, hp, name, fun, args) ==
    LET b == SampleBranch(tr, hp, name, fun, args)
    IN CASE b = "bypass" -> {NewCopy(v) : v \in FreshVals(fun, args)}
         [] b = "duplicate" -> {Raised("ValueError")}
         [] b = "reuse" -> {NewCopy(hp[Get(tr.input_trace, name)].val)}
         [] b = "repair" -> Repair(fun, args, hp[Get(tr.input_trace, name)])
         [] b = "fresh" -> {NewCopy(v) : v \in FreshVals(fun, args)}

\* A faulty variant: the call is recorded whether or not the tracer is active.
TracerSampleIdleTraced(tr, hp, name, fun, args, o) ==
    IF o.raised # "" THEN [tr |-> tr, hp |-> hp, raised |-> o.raised, val |-> <<>>]
    ELSE [tr |-> [tr EXCEPT !.output_trace = Put(@, name, Len(hp) + 1)],
          hp |-> Append(hp, [fun |-> fun, args |-> args, val |-> o.val]),
          raised |-> "", val |-> o.val]

\* A faulty variant: an entry whose value was taken over is not recorded.
TracerSampleReuseUnrecorded(tr, hp, name, fun, args, o) ==
    IF o.raised # "" THEN [tr |-> tr, hp |-> hp, raised |-> o.raised, val |-> <<>>]
    ELSE IF ~tr.active \/ SampleBranch(tr, hp, name, fun, args) = "reuse"
    THEN [tr |-> tr, hp |-> hp, raised |-> "", val |-> o.val]
    ELSE [tr |-> [tr EXCEPT !.output_trace = Put(@, name, Len(hp) + 1)],
          hp |-> Append(hp, [fun |-> fun, args |-> args, val |-> o.val]),
          raised |-> "", val |-> o.val]

\* Tracer.sample for a settled outcome o: the tracer and heap it leaves and
\* what it returns or raises
TracerSample(tr, hp, name, fun, args, o) ==
    IF o.raised # "" THEN [tr |-> tr, hp |-> hp, raised |-> o.raised, val |-> <<>>]
    ELSE IF ~tr.active THEN [tr |-> tr, hp |-> hp, raised |-> "", val |-> o.val]
    ELSE [tr |-> [tr EXCEPT !.output_trace = Put(@, name, Len(hp) + 1)],
          hp |-> Append(hp, [fun |-> fun, args |-> args, val |-> o.val]),
          raised |-> "", val |-> o.val]

\* RandomTraceable(tracer=tracer): by default rnd.tracer is the module-level
\* Tracer itself (own is FALSE and the other fields are not used)
RndShared == [own |-> FALSE, active |-> FALSE, input_trace |-> <<>>, output_trace |-> <<>>]

\* T = Tracer(); RandomTraceable(tracer=T): a Tracer of its own
RndOwn == [own |-> TRUE, active |-> FALSE, input_trace |-> <<>>, output_trace |-> <<>>]

\* the Tracer object rnd.tracer refers to, given the module-level one
RndTracer(rtr, tr) ==
    IF rtr.own
    THEN [active |-> rtr.active, input_trace |-> rtr.input_trace,
          output_trace |-> rtr.output_trace]
    ELSE tr

\* the two Tracers after a call on rnd.tracer left that object as tr2
AfterRnd(rtr, tr, tr2) ==
    IF rtr.own
    THEN [module |-> tr,
          rnd |-> [own |-> TRUE, active |-> tr2.active, input_trace |-> tr2.input_trace,
                   output_trace |-> tr2.output_trace]]
    ELSE [module |-> tr2, rnd |-> rtr]

\* Tracer.play up to the call of gen()
PlayStart(tr, trace) ==
    [active |-> TRUE, input_trace |-> trace, output_trace |-> <<>>]

\* Faulty variants: the entries of the input trace are handed back too; the
\* input trace is handed back.
PlayResultUnpruned(tr) == Merge(tr.input_trace, tr.output_trace)
PlayResultInput(tr) == tr.input_trace

\* Tracer.play after gen() returned: the trace it hands back, and the tracer
PlayResult(tr) == tr.output_trace
PlayEnd(tr) == [tr EXCEPT !.active = FALSE]

(***************************************************************************)
(* Generators: the callbacks an Op can be built with.  GenNext(g, hist) is *)
(* what generator g does next after its sampling calls returned hist: the  *)
(* next sampling call, or its return value.                                *)
(***************************************************************************)
RandintArgs(a, b) == <<Scalar(a), Scalar(b)>>
ChoiceArgs(seq) == <<seq>>
SampleArgs(population, k) == <<population, Scalar(k)>>

Call(name, fun, args) ==
    [kind |-> "sample", name |-> name, fun |-> fun, args |-> args, pheno |-> <<>>]
Return(pheno) ==
    [kind |-> "return", name |-> "", fun |-> "", args |-> <<>>, pheno |-> pheno]

Generators ==
    {"onemax", "conditional", "sim_remove", "int_dep", "native", "seq_dep", "dup",
     "no_rnd"}

GenNext(g, hist) ==
    LET n == Len(hist) IN
    CASE g = "onemax" ->        \* [rnd.choice([0, 1]) for i in range(2)]
           IF n < 2 THEN Call(IF n = 0 THEN "0" ELSE "1", "choice", ChoiceArgs(<<0, 1>>))
           ELSE Return(hist)
      [] g = "conditional" ->   \* coin = rnd.choice([0, 1]); one call per branch
           IF n = 0 THEN Call("coin", "choice", ChoiceArgs(<<0, 1>>))
           ELSE IF n = 1 THEN
                  IF hist[1][1] = 1 THEN Call("then", "randint", RandintArgs(0, 1))
                  ELSE Call("else", "choice", ChoiceArgs(<<0, 1>>))
           ELSE Return(hist)
      [] g = "sim_remove" ->    \* k = 2 times: el = rnd.choice(L); L.remove(el)
           IF n = 0 THEN Call("0", "choice", ChoiceArgs(<<0, 1, 2>>))
           ELSE IF n = 1 THEN
                  Call("1", "choice", ChoiceArgs(ListRemove(<<0, 1, 2>>, hist[1][1])))
           ELSE Return(hist)
      [] g = "int_dep" ->       \* n = rnd.randint(0, 1); rnd.randint(n, 1)
           IF n = 0 THEN Call("0", "randint", RandintArgs(0, 1))
           ELSE IF n = 1 THEN Call("1", "randint", RandintArgs(hist[1][1], 1))
           ELSE Return(hist)
      [] g = "native" ->        \* rnd.sample(list(range(3)), 2)
           IF n = 0 THEN Call("0", "sample", SampleArgs(<<0, 1, 2>>, 2))
           ELSE Return(hist)
      [] g = "seq_dep" ->       \* m = rnd.choice([0, 1]); rnd.sample(L[m], 1)
           IF n = 0 THEN Call("0", "choice", ChoiceArgs(<<0, 1>>))
           ELSE IF n = 1 THEN
                  Call("1", "sample",
                       SampleArgs(IF hist[1][1] = 0 THEN <<0, 1>> ELSE <<1, 2>>, 1))
           ELSE Return(hist)
      [] g = "dup" ->           \* two sampling calls under one name
           IF n < 2 THEN Call("0", "choice", ChoiceArgs(<<0, 1>>))
           ELSE Return(hist)
      [] g = "no_rnd" ->        \* return 42
           Return(<<Scalar(42)>>)
      [] g = "reorder" ->       \* c = rnd.choice([0, 1]); calls "a" and "b", "b" first if c
           IF n = 0 THEN Call("c", "choice", ChoiceArgs(<<0, 1>>))
           ELSE IF n = 1 THEN
                  IF hist[1][1] = 0 THEN Call("a", "choice", ChoiceArgs(<<0, 1>>))
                  ELSE Call("b", "choice", ChoiceArgs(<<0>>))
           ELSE IF n = 2 THEN
                  IF hist[1][1] = 0 THEN Call("b", "choice", ChoiceArgs(<<0>>))
                  ELSE Call("a", "choice", ChoiceArgs(<<0, 1>>))
           ELSE Return(hist)

\* the name sequences of the complete executions of g from hist on
RECURSIVE RunNames(_, _)
RunNames(g, hist) ==
    LET nx == GenNext(g, hist)
    IN IF nx.kind = "return" THEN {<<>>}
       ELSE UNION {{<<nx.name>> \o ns : ns \in RunNames(g, Append(hist, v))} :
                      v \in FreshVals(nx.fun, nx.args)}

\* g issues the same set of uniquely named sampling calls on every execution
FixedStructure(g) ==
    /\ Cardinality({Range(ns) : ns \in RunNames(g, <<>>)}) = 1
    /\ \A ns \in RunNames(g, <<>>) : Cardinality(Range(ns)) = Len(ns)

FixedNames(g) == UNION {Range(ns) : ns \in RunNames(g, <<>>)}

(***************************************************************************)
(* Solutions and the trace operators (class Op).  A genotype is a trace;   *)
(* the operators below build the genotype handed to fix_ind, as the set of *)
(* outcomes [raised, hp, geno] of their random draws.                      *)
(***************************************************************************)
\* alignment is the list _align_genotypes returned to the operator and
\* crossover_point the cut crossover_one_point_ind drew (-1: it drew none)
GenoOutcome(err, hp, geno) ==
    [raised |-> err, hp |-> hp, geno |-> geno, alignment |-> <<>>,
     crossover_point |-> -1]

\* the names and Dist values of a trace: what repr() prints of it
Deep(hp, geno) ==
    [i \in DOMAIN geno |-> [name |-> geno[i].name, dist |-> hp[geno[i].ref]]]

\* repr(args) of check_immutable, for Solution arguments
Snapshot(hp, args) ==
    [i \in DOMAIN args |-> [pheno |-> args[i].pheno, geno |-> Deep(hp, args[i].geno)]]

\* Op.mutate_point_ind up to fix_ind
MutatePoint(hp, geno) ==
    IF geno = <<>> THEN {GenoOutcome("IndexError", hp, geno)}
    ELSE UNION {
           {LET a == ApplyOutcome(hp, geno[i].ref, o)
            IN GenoOutcome(o.raised, a.hp, Put(geno, geno[i].name, a.ref)) :
               o \in Mutation(hp[geno[i].ref])} :
           i \in DOMAIN geno}

\* the dict comprehension of Op.mutate_position_wise_ind from entry i on
RECURSIVE PositionWise(_, _, _, _)
PositionWise(hp, geno, i, new_geno) ==
    IF i > Len(geno) THEN {GenoOutcome("", hp, new_geno)}
    ELSE PositionWise(hp, geno, i + 1, Append(new_geno, geno[i]))
         \cup UNION {
           LET a == ApplyOutcome(hp, geno[i].ref, o)
           IN IF o.raised # "" THEN {GenoOutcome(o.raised, hp, new_geno)}
              ELSE PositionWise(a.hp, geno, i + 1,
                                Append(new_geno, [name |-> geno[i].name, ref |-> a.ref])) :
           o \in Mutation(hp[geno[i].ref])}

\* Op.mutate_position_wise_ind up to fix_ind
MutatePositionWise(hp, geno) ==
    IF Len(geno) = 0 THEN {GenoOutcome("ZeroDivisionError", hp, geno)}
    ELSE PositionWise(hp, geno, 1, <<>>)

\* A faulty variant: the order of the common names is never compared.
AlignUnchecked(genos) ==
    [raised |-> "",
     alignment |-> SelectSeq(Keys(genos[1]),
                             LAMBDA key : \A s \in DOMAIN genos : Has(genos[s], key))]

\* Op._align_genotypes(*sols), genos the parents' genotypes in order
Align(genos) ==
    LET base_keys == Keys(genos[1])
        alignment == SelectSeq(base_keys, LAMBDA key : \A s \in DOMAIN genos : Has(genos[s], key))
        SolAlignment(s) == SelectSeq(Keys(genos[s]), LAMBDA key : key \in Range(alignment))
    IN [raised |-> IF Debug /\ \E s \in 2..Len(genos) : SolAlignment(s) # alignment
                   THEN "AssertionError" ELSE "",
        alignment |-> alignment]

\* A faulty variant: a name several parents have keeps the entry of the
\* earliest of them.
RECURSIVE MergeAllEarlier(_)
MergeAllEarlier(genos) ==
    IF Len(genos) = 1 THEN genos[1]
    ELSE Merge(genos[Len(genos)], MergeAllEarlier(SubSeq(genos, 1, Len(genos) - 1)))

\* sol1.geno | sol2.geno [| sol3.geno]
RECURSIVE MergeAll(_)
MergeAll(genos) ==
    IF Len(genos) = 1 THEN genos[1]
    ELSE Merge(MergeAll(SubSeq(genos, 1, Len(genos) - 1)), genos[Len(genos)])

\* Op.crossover_one_point_ind up to fix_ind
CrossoverOnePoint(hp, genos) ==
    LET al == Align(genos)
    IN IF al.raised # "" THEN {GenoOutcome(al.raised, hp, <<>>)}
       ELSE {LET new_geno_alignment ==
                     [pos \in DOMAIN al.alignment |->
                        [name |-> al.alignment[pos],
                         ref |-> Get(genos[IF pos - 1 <= crossover_point THEN 1 ELSE 2],
                                     al.alignment[pos])]]
             IN [GenoOutcome("", hp, Merge(MergeAll(genos), new_geno_alignment))
                    EXCEPT !.alignment = al.alignment,
                           !.crossover_point = crossover_point] :
                crossover_point \in 0..Len(al.alignment)}

\* entry.crossover(...) / entry.convex_crossover(...) for one aligned key
EntryCross(hp, genos, key) ==
    IF Len(genos) = 2
    THEN Crossover(hp, Get(genos[1], key), Get(genos[2], key))
    ELSE ConvexCrossover(hp, Get(genos[1], key), Get(genos[2], key), Get(genos[3], key))

\* the dict comprehension over the alignment, from position i on
RECURSIVE CrossAligned(_, _, _, _, _)
CrossAligned(hp, genos, alignment, i, new_geno_alignment) ==
    IF i > Len(alignment) THEN {GenoOutcome("", hp, new_geno_alignment)}
    ELSE UNION {
           LET a == ApplyOutcome(hp, Get(genos[1], alignment[i]), o)
           IN IF o.raised # "" THEN {GenoOutcome(o.raised, hp, new_geno_alignment)}
              ELSE CrossAligned(a.hp, genos, alignment, i + 1,
                                Append(new_geno_alignment,
                                       [name |-> alignment[i], ref |-> a.ref])) :
           o \in EntryCross(hp, genos, alignment[i])}

\* Op.crossover_uniform_ind (two parents) and Op.convex_crossover_ind (three)
\* up to fix_ind
CrossoverUniform(hp, genos) ==
    LET al == Align(genos)
    IN IF al.raised # "" THEN {GenoOutcome(al.raised, hp, <<>>)}
       ELSE {[GenoOutcome(x.raised, x.hp, Merge(MergeAll(genos), x.geno))
                 EXCEPT !.alignment = al.alignment] :
                x \in CrossAligned(hp, genos, al.alignment, 1, <<>>)}

\* sum of the per-entry distances over a list of common names
RECURSIVE SumDistances(_, _, _, _)
SumDistances(hp, g1, g2, names) ==
    IF names = <<>> THEN DistNum(0, 1)
    ELSE LET d == Distance(hp[Get(g1, names[1])], hp[Get(g2, names[1])])
             rest == SumDistances(hp, g1, g2, Tail(names))
         IN DistNum(d.num * rest.den + rest.num * d.den, d.den * rest.den)

\* Op.distance_ind: the number it returns or the exception it raises
DistanceInd(hp, g1, g2) ==
    LET common == SelectSeq(Keys(g1), LAMBDA key : Has(g2, key))
        ds == {Distance(hp[Get(g1, key)], hp[Get(g2, key)]) : key \in Range(common)}
        errors == {d.err : d \in {x \in ds : x.kind = "raise"}}
                    \cup (IF \E d \in ds : d.kind = "tuple" THEN {"TypeError"} ELSE {})
        symmetric_difference ==
            Cardinality((KeySet(g1) \cup KeySet(g2)) \ (KeySet(g1) \cap KeySet(g2)))
        s == SumDistances(hp, g1, g2, common)
    IN IF errors # {} THEN {DistRaise(e) : e \in errors}
       ELSE {DistNum(s.num + symmetric_difference * s.den, s.den)}

(***************************************************************************)
(* State.                                                                  *)
(***************************************************************************)
NoSol == [pheno |-> <<>>, geno |-> <<>>]
EmptySlot == [full |-> FALSE, pheno |-> <<>>, geno |-> <<>>]

\* pc: "idle" (in the caller), "gen" (inside play, in the generator),
\* "returned" (back in the caller, the result in ret)
IdleFrame ==
    [pc |-> "idle", op |-> "", args |-> <<>>, origins |-> <<>>, before |-> <<>>,
     input |-> <<>>, alignment |-> <<>>, crossover_point |-> -1, hist |-> <<>>,
     log |-> <<>>]

NoCall == [name |-> "", fun |-> "", args |-> <<>>, how |-> ""]

\* status: "none", "sol" (a Solution), "num" (a distance), "val" (a sampled
\* value), "raise" (an exception, err)
NoRet ==
    [op |-> "", status |-> "none", err |-> "", call |-> NoCall, val |-> <<>>,
     sol |-> NoSol, before |-> <<>>, after |-> <<>>, origins |-> <<>>,
     input |-> <<>>, alignment |-> <<>>, crossover_point |-> -1, log |-> <<>>,
     num |-> 0, den |-> 1, attempts |-> 0, debug |-> Debug]

\* the references a trace holds, in order
Refs(d) == [i \in DOMAIN d |-> d[i].ref]

RECURSIVE Flatten(_)
Flatten(ss) == IF ss = <<>> THEN <<>> ELSE ss[1] \o Flatten(Tail(ss))

RECURSIVE Dedup(_)
Dedup(s) ==
    IF s = <<>> THEN <<>>
    ELSE LET d == Dedup(SubSeq(s, 1, Len(s) - 1))
         IN IF s[Len(s)] \in Range(d) THEN d ELSE Append(d, s[Len(s)])

\* Reference counting: the objects nothing refers to any more are freed.  The
\* live ones are renumbered in the order the state refers to them.
Renumber(live, d) ==
    [i \in DOMAIN d |-> [name |-> d[i].name, ref |-> IndexOf(live, d[i].ref)]]

Live(pp, tr, rtr, th, rt) ==
    Dedup(Flatten([s \in Slots |-> Refs(pp[s].geno)])
          \o Refs(tr.input_trace) \o Refs(tr.output_trace)
          \o Refs(rtr.input_trace) \o Refs(rtr.output_trace)
          \o Flatten([t \in 1..Cardinality(Threads) |->
                        Flatten([i \in DOMAIN th[t].args |-> Refs(th[t].args[i].geno)])
                        \o Refs(rt[t].sol.geno)]))

SetHeap(hp, pp, tr, rtr, th, rt) ==
    LET live == Live(pp, tr, rtr, th, rt)
    IN /\ heap' = [i \in DOMAIN live |-> hp[live[i]]]
       /\ pop' = [s \in Slots |-> [pp[s] EXCEPT !.geno = Renumber(live, @)]]
       /\ tracer' = [tr EXCEPT !.input_trace = Renumber(live, @),
                               !.output_trace = Renumber(live, @)]
       /\ rnd_tracer' = [rtr EXCEPT !.input_trace = Renumber(live, @),
                                    !.output_trace = Renumber(live, @)]
       /\ thr' = [t \in Threads |->
                    [th[t] EXCEPT !.args =
                        [i \in DOMAIN th[t].args |->
                           [th[t].args[i] EXCEPT !.geno = Renumber(live, @)]]]]
       /\ ret' = [t \in Threads |-> [rt[t] EXCEPT !.sol.geno = Renumber(live, @)]]

\* a step of the manually named layers: the generator and the naming singleton
\* stay as they are
SetStateRnd(hp, pp, tr, rtr, th, rt) ==
    /\ SetHeap(hp, pp, tr, rtr, th, rt)
    /\ UNCHANGED <<generator, Name, search>>

\* the same, for a step that makes no call on rnd.tracer
SetState(hp, pp, tr, th, rt) == SetStateRnd(hp, pp, tr, rnd_tracer, th, rt)

Init ==
    /\ generator \in Generators
    /\ heap = <<>>
    /\ pop = [s \in Slots |-> EmptySlot]
    /\ tracer = TracerInit
    /\ rnd_tracer = RndShared
    /\ Name = NameInit
    /\ search = NoSearch
    /\ thr = [t \in Threads |-> IdleFrame]
    /\ ret = [t \in Threads |-> NoRet]

\* The caller keeps Solutions in any slot, so the slots are interchangeable:
\* an operator's first argument is taken from slot First, the others from any.
First == CHOOSE s \in Slots : \A r \in Slots : s <= r

\* the Solution held in slot s, as an operator argument
Arg(s) == [pheno |-> pop[s].pheno, geno |-> pop[s].geno]

\* the operators wrapped by @check_immutable
Wrapped(op) == op \notin {"create_ind", "fix_ind"}

(***************************************************************************)
(* Calls.  An operator call runs up to the point where Tracer.play invokes *)
(* the generator; each sampling call of the generator is a step; the       *)
(* generator's return completes play, fix_ind and the operator.            *)
(***************************************************************************)

\* the call raised before it reached fix_ind
RaiseEarly(t, op, args, err, hp) ==
    SetState(hp, pop, tracer, [thr EXCEPT ![t].pc = "returned"],
             [ret EXCEPT ![t] =
                [NoRet EXCEPT !.op = op, !.status = "raise", !.err = err,
                              !.before = Snapshot(heap, args),
                              !.after = Snapshot(hp, args)]])

\* fix_ind(geno) / create_ind(): Op.tracer.play(self.generator, geno) up to
\* gen().  Op.tracer is the class attribute, bound to the module-level Tracer:
\* Op.__init__ takes a tracer argument and does not store it.
\* x is the genotype handed to play, with the heap it lives in
EnterPlay(t, op, args, origins, x) ==
    SetState(x.hp, pop, PlayStart(tracer, x.geno),
             [thr EXCEPT ![t] =
                [pc |-> "gen", op |-> op, args |-> args, origins |-> origins,
                 before |-> Snapshot(heap, args), input |-> Deep(x.hp, x.geno),
                 alignment |-> x.alignment, crossover_point |-> x.crossover_point,
                 hist |-> <<>>, log |-> <<>>]],
             [ret EXCEPT ![t] = NoRet])

\* an operator on the Solutions in slots that builds a genotype and hands it
\* to fix_ind
Operate(t, op, slots, outcomes) ==
    /\ thr[t].pc = "idle"
    /\ \A i \in DOMAIN slots : pop[slots[i]].full
    /\ \E x \in outcomes :
         LET args == [i \in DOMAIN slots |-> Arg(slots[i])]
         IN IF x.raised # "" THEN RaiseEarly(t, op, args, x.raised, x.hp)
            ELSE EnterPlay(t, op, args, [i \in DOMAIN slots |-> ""], x)

CreateInd(t) ==
    /\ thr[t].pc = "idle"
    /\ EnterPlay(t, "create_ind", <<>>, <<>>, GenoOutcome("", heap, <<>>))

\* fix_ind on the genotype of the Solution just returned: a replay.  origins
\* keeps the operator that returned it and how it settled each entry.
FixInd(t) ==
    /\ thr[t].pc = "returned"
    /\ ret[t].status = "sol"
    /\ EnterPlay(t, "fix_ind", <<ret[t].sol>>,
                 <<ret[t].op>> \o [i \in DOMAIN ret[t].log |-> ret[t].log[i].how],
                 GenoOutcome("", heap, ret[t].sol.geno))

MutatePointInd(t, s) ==
    Operate(t, "mutate_point_ind", <<s>>, MutatePoint(heap, pop[s].geno))

MutatePositionWiseInd(t, s) ==
    Operate(t, "mutate_position_wise_ind", <<s>>, MutatePositionWise(heap, pop[s].geno))

\* Op.mutate_random_ind: create_ind, whatever the argument
MutateRandomInd(t, s) ==
    Operate(t, "mutate_random_ind", <<s>>, {GenoOutcome("", heap, <<>>)})

CrossoverOnePointInd(t, s1, s2) ==
    Operate(t, "crossover_one_point_ind", <<s1, s2>>,
            CrossoverOnePoint(heap, <<pop[s1].geno, pop[s2].geno>>))

CrossoverUniformInd(t, s1, s2) ==
    Operate(t, "crossover_uniform_ind", <<s1, s2>>,
            CrossoverUniform(heap, <<pop[s1].geno, pop[s2].geno>>))

ConvexCrossoverInd(t, s1, s2, s3) ==
    Operate(t, "convex_crossover_ind", <<s1, s2, s3>>,
            CrossoverUniform(heap, <<pop[s1].geno, pop[s2].geno, pop[s3].geno>>))

\* Op.distance_ind under @check_immutable
DistanceIndCall(t, s1, s2) ==
    /\ thr[t].pc = "idle"
    /\ pop[s1].full /\ pop[s2].full
    /\ \E d \in DistanceInd(heap, pop[s1].geno, pop[s2].geno) :
         LET base == [NoRet EXCEPT !.op = "distance_ind",
                                   !.before = Snapshot(heap, <<Arg(s1), Arg(s2)>>),
                                   !.after = Snapshot(heap, <<Arg(s1), Arg(s2)>>)]
         IN /\ thr' = [thr EXCEPT ![t].pc = "returned"]
            /\ ret' = [ret EXCEPT ![t] =
                         IF d.kind = "raise"
                         THEN [base EXCEPT !.status = "raise", !.err = d.err]
                         ELSE [base EXCEPT !.status = "num", !.num = d.num,
                                           !.den = d.den]]
            /\ UNCHANGED <<generator, Name, search, heap, pop, tracer, rnd_tracer>>

\* the generator, running inside play, makes its next sampling call
GenSample(t) ==
    /\ thr[t].pc = "gen"
    /\ LET f == thr[t]
           nx == GenNext(generator, f.hist)
       IN /\ nx.kind = "sample"
          /\ \E o \in SampleOutcomes(RndTracer(rnd_tracer, tracer), heap,
                                      nx.name, nx.fun, nx.args) :
               LET on == RndTracer(rnd_tracer, tracer)
                   r == TracerSample(on, heap, nx.name, nx.fun, nx.args, o)
                   how == SampleBranch(on, heap, nx.name, nx.fun, nx.args)
                   trs == AfterRnd(rnd_tracer, tracer, r.tr)
               IN IF r.raised # ""
                  THEN \* the exception leaves gen, play, fix_ind and the operator
                       SetStateRnd(r.hp, pop, trs.module, trs.rnd,
                                [thr EXCEPT ![t] = [IdleFrame EXCEPT !.pc = "returned"]],
                                [ret EXCEPT ![t] =
                                   [NoRet EXCEPT !.op = f.op, !.status = "raise",
                                                 !.err = r.raised,
                                                 !.call = [name |-> nx.name, fun |-> nx.fun,
                                                           args |-> nx.args, how |-> how],
                                                 !.before = f.before,
                                                 !.after = Snapshot(r.hp, f.args),
                                                 !.origins = f.origins,
                                                 !.input = f.input,
                                                 !.alignment = f.alignment,
                                                 !.crossover_point = f.crossover_point,
                                                 !.log = f.log]])
                  ELSE \* the new Dist is the last object of the heap
                       /\ heap' = r.hp
                       /\ tracer' = trs.module
                       /\ rnd_tracer' = trs.rnd
                       /\ thr' = [thr EXCEPT ![t].hist = Append(@, r.val),
                                             ![t].log = Append(@, [name |-> nx.name,
                                                                   how |-> how,
                                                                   val |-> r.val])]
                       /\ UNCHANGED <<generator, Name, search, pop, ret>>

\* the generator returns: play hands back (solution, result_trace), fix_ind
\* wraps them in a Sol and the decorator compares repr(args)
GenReturn(t) ==
    /\ thr[t].pc = "gen"
    /\ LET f == thr[t]
           nx == GenNext(generator, f.hist)
           after == Snapshot(heap, f.args)
           base == [NoRet EXCEPT !.op = f.op, !.before = f.before, !.after = after,
                                 !.origins = f.origins, !.input = f.input,
                                 !.alignment = f.alignment,
                                 !.crossover_point = f.crossover_point, !.log = f.log]
       IN /\ nx.kind = "return"
          /\ SetState(heap, pop, PlayEnd(tracer),
                      [thr EXCEPT ![t] = [IdleFrame EXCEPT !.pc = "returned"]],
                      [ret EXCEPT ![t] =
                         IF Debug /\ Wrapped(f.op) /\ after # f.before
                         THEN [base EXCEPT !.status = "raise", !.err = "AssertionError"]
                         ELSE [base EXCEPT !.status = "sol",
                                           !.sol = [pheno |-> nx.pheno,
                                                    geno |-> PlayResult(tracer)]]])

\* the caller keeps the Solution it got in slot dest
Keep(t, dest) ==
    /\ thr[t].pc = "returned"
    /\ ret[t].status = "sol"
    /\ SetState(heap,
                [pop EXCEPT ![dest] = [full |-> TRUE, pheno |-> ret[t].sol.pheno,
                                       geno |-> ret[t].sol.geno]],
                tracer, [thr EXCEPT ![t] = IdleFrame], [ret EXCEPT ![t] = NoRet])

\* the caller goes on without the result (or after the exception)
Drop(t) ==
    /\ thr[t].pc = "returned"
    /\ SetState(heap, pop, tracer, [thr EXCEPT ![t] = IdleFrame],
                [ret EXCEPT ![t] = NoRet])

\* the sampling calls made outside play
IdleCalls ==
    {Call("0", "choice", ChoiceArgs(<<0, 1>>))}

\* a sampling call made outside any play
IdleSample(t, c) ==
    /\ thr[t].pc = "idle"
    /\ \E o \in SampleOutcomes(RndTracer(rnd_tracer, tracer), heap,
                                c.name, c.fun, c.args) :
         LET on == RndTracer(rnd_tracer, tracer)
             r == TracerSample(on, heap, c.name, c.fun, c.args, o)
             trs == AfterRnd(rnd_tracer, tracer, r.tr)
             base == [NoRet EXCEPT !.op = "sample",
                                   !.call = [name |-> c.name, fun |-> c.fun, args |-> c.args,
                                             how |-> SampleBranch(on, heap, c.name,
                                                                  c.fun, c.args)]]
         IN /\ heap' = r.hp
            /\ tracer' = trs.module
            /\ rnd_tracer' = trs.rnd
            /\ thr' = [thr EXCEPT ![t].pc = "returned"]
            /\ ret' = [ret EXCEPT ![t] =
                         IF r.raised # ""
                         THEN [base EXCEPT !.status = "raise", !.err = r.raised]
                         ELSE [base EXCEPT !.status = "val", !.val = r.val]]
            /\ UNCHANGED <<generator, Name, search, pop>>

Next ==
    \E t \in Threads :
        \/ CreateInd(t)
        \/ FixInd(t)
        \/ MutatePointInd(t, First)
        \/ MutatePositionWiseInd(t, First)
        \/ MutateRandomInd(t, First)
        \/ \E s2 \in Slots : CrossoverOnePointInd(t, First, s2)
        \/ \E s2 \in Slots : CrossoverUniformInd(t, First, s2)
        \/ \E s2, s3 \in Slots : ConvexCrossoverInd(t, First, s2, s3)
        \/ \E s2 \in Slots : DistanceIndCall(t, First, s2)
        \/ GenSample(t)
        \/ GenReturn(t)
        \/ \E dest \in Slots : Keep(t, dest)
        \/ Drop(t)
        \/ \E c \in IdleCalls : IdleSample(t, c)

Spec == Init /\ [][Next]_vars

(***************************************************************************)
(* The crossovers on three Solutions the caller holds: any three Solutions *)
(* create_ind can return for the generator.                                *)
(***************************************************************************)
CrossGenerators == {"reorder", "conditional"}

\* the values sampled in the complete runs of g from hist on
RECURSIVE Runs(_, _)
Runs(g, hist) ==
    LET nx == GenNext(g, hist)
    IN IF nx.kind = "return" THEN {hist}
       ELSE UNION {Runs(g, Append(hist, v)) : v \in FreshVals(nx.fun, nx.args)}

\* the Dist objects the run recorded, in order, and their names
RunDists(g, hist) ==
    [i \in DOMAIN hist |->
        LET nx == GenNext(g, SubSeq(hist, 1, i - 1))
        IN [fun |-> nx.fun, args |-> nx.args, val |-> hist[i]]]
RunKeys(g, hist) == [i \in DOMAIN hist |-> GenNext(g, SubSeq(hist, 1, i - 1)).name]

\* the Solution of the run, its Dist objects placed on the heap after base
RunSol(g, hist, base) ==
    [pheno |-> GenNext(g, hist).pheno,
     geno |-> [i \in DOMAIN hist |-> [name |-> RunKeys(g, hist)[i], ref |-> base + i]]]

HeldInit ==
    /\ generator \in CrossGenerators
    /\ \E r1, r2, r3 \in Runs(generator, <<>>) :
         /\ heap = RunDists(generator, r1) \o RunDists(generator, r2)
                      \o RunDists(generator, r3)
         /\ thr = [t \in Threads |->
                     [IdleFrame EXCEPT !.args =
                         <<RunSol(generator, r1, 0),
                           RunSol(generator, r2, Len(r1)),
                           RunSol(generator, r3, Len(r1) + Len(r2))>>]]
    /\ pop = [s \in Slots |-> EmptySlot]
    /\ tracer = TracerInit
    /\ rnd_tracer = RndShared
    /\ Name = NameInit
    /\ search = NoSearch
    /\ ret = [t \in Threads |-> NoRet]

\* an operator called on the Solutions args the caller holds
OperateHeld(t, op, args, outcomes) ==
    /\ thr[t].pc = "idle"
    /\ \E x \in outcomes :
         IF x.raised # "" THEN RaiseEarly(t, op, args, x.raised, x.hp)
         ELSE EnterPlay(t, op, args, [i \in DOMAIN args |-> ""], x)

HeldCrossoverOnePoint(t) ==
    OperateHeld(t, "crossover_one_point_ind", SubSeq(thr[t].args, 1, 2),
                CrossoverOnePoint(heap, <<thr[t].args[1].geno, thr[t].args[2].geno>>))

HeldCrossoverUniform(t) ==
    OperateHeld(t, "crossover_uniform_ind", SubSeq(thr[t].args, 1, 2),
                CrossoverUniform(heap, <<thr[t].args[1].geno, thr[t].args[2].geno>>))

HeldConvexCrossover(t) ==
    OperateHeld(t, "convex_crossover_ind", thr[t].args,
                CrossoverUniform(heap, <<thr[t].args[1].geno, thr[t].args[2].geno,
                                         thr[t].args[3].geno>>))

HeldNext ==
    \E t \in Threads :
        \/ HeldCrossoverOnePoint(t)
        \/ HeldCrossoverUniform(t)
        \/ HeldConvexCrossover(t)
        \/ GenSample(t)
        \/ GenReturn(t)

HeldSpec == HeldInit /\ [][HeldNext]_vars

\* T = Tracer(); rnd = RandomTraceable(tracer=T); Op(generator, tracer=T): the
\* generator's sampling calls are bound to T and T is handed to the Op
OwnTracerInit ==
    /\ generator \in Generators
    /\ heap = <<>>
    /\ pop = [s \in Slots |-> EmptySlot]
    /\ tracer = TracerInit
    /\ rnd_tracer = RndOwn
    /\ Name = NameInit
    /\ search = NoSearch
    /\ thr = [t \in Threads |-> IdleFrame]
    /\ ret = [t \in Threads |-> NoRet]

OwnTracerSpec == OwnTracerInit /\ [][Next]_vars

(***************************************************************************)
(* The per-entry operators on their own: two Dist objects, self and other, *)
(* are on the heap and one operator of self is called, or a sampling call  *)
(* with self's function and arguments is replayed against other as the     *)
(* recorded entry.                                                         *)
(***************************************************************************)
MaxBound == 2        \* largest bound of an integer call
MaxStep == 2         \* largest step of a randrange call

RandrangeArgs(start, stop, step) == <<Scalar(start), Scalar(stop), Scalar(step)>>
UniformArgs(a, b) == <<Scalar(a), Scalar(b)>>

IntCalls ==
    {[fun |-> "randint", args |-> RandintArgs(ab[1], ab[2])] :
        ab \in {x \in (0..MaxBound) \X (0..MaxBound) : x[1] <= x[2]}}
    \cup {[fun |-> "randrange", args |-> RandrangeArgs(0, stop, step)] :
             stop \in 1..(MaxBound + 1), step \in 1..MaxStep}

RealCalls ==
    {[fun |-> "random", args |-> <<>>],
     [fun |-> "uniform", args |-> UniformArgs(0, 1)],
     [fun |-> "uniform", args |-> UniformArgs(-5, 5)],
     [fun |-> "uniform", args |-> UniformArgs(2, 2)]}

CatCalls ==
    {[fun |-> "choice", args |-> ChoiceArgs(<<0, 1>>)],
     [fun |-> "choice", args |-> ChoiceArgs(<<1, 2>>)],
     [fun |-> "choice", args |-> ChoiceArgs(<<0, 1, 2>>)]}

\* the Dist objects sampling calls can have recorded
DistInputs ==
    UNION {{[fun |-> c.fun, args |-> c.args, val |-> v] : v \in FreshVals(c.fun, c.args)} :
              c \in IntCalls \cup RealCalls \cup CatCalls}

\* sequence-selection calls: shuffle(seq), sample(population, k) and
\* choices(population, k=k)
ShuffleArgs(seq) == <<seq>>

SeqCalls ==
    {[fun |-> "shuffle", args |-> ShuffleArgs(<<0, 1, 2>>)],
     [fun |-> "shuffle", args |-> ShuffleArgs(<<0, 1>>)],
     [fun |-> "sample", args |-> SampleArgs(<<0, 1, 2, 3>>, 3)],
     [fun |-> "sample", args |-> SampleArgs(<<0, 1, 2>>, 2)],
     [fun |-> "choices", args |-> SampleArgs(<<0, 1>>, 2)],
     [fun |-> "choices", args |-> SampleArgs(<<1, 2>>, 1)]}

\* the Dist objects these calls can have recorded
SeqInputs ==
    UNION {{[fun |-> c.fun, args |-> c.args, val |-> v] : v \in FreshVals(c.fun, c.args)} :
              c \in SeqCalls}

DistInit ==
    /\ generator = ""
    /\ heap \in {<<self, other>> : self \in DistInputs, other \in DistInputs}
    /\ pop = [s \in Slots |-> EmptySlot]
    /\ tracer = TracerInit
    /\ rnd_tracer = RndShared
    /\ Name = NameInit
    /\ search = NoSearch
    /\ thr = [t \in Threads |-> IdleFrame]
    /\ ret = [t \in Threads |-> NoRet]

\* the operands of a call, as a trace
Operands(n) ==
    [i \in 1..n |-> [name |-> IF i = 1 THEN "self" ELSE "other", ref |-> i]]

\* self.<op>(...) returned or raised outcome o, hp being the heap at the call
DistReturn(t, op, hp, n, o) ==
    LET a == ApplyOutcome(hp, 1, o)
        base == [NoRet EXCEPT !.op = op, !.input = Deep(hp, Operands(n)),
                              !.attempts = o.attempts]
    IN /\ heap' = IF o.raised # "" THEN hp ELSE a.hp
       /\ thr' = [thr EXCEPT ![t].pc = "returned"]
       /\ ret' = [ret EXCEPT ![t] =
                    IF o.raised # ""
                    THEN [base EXCEPT !.status = "raise", !.err = o.raised]
                    ELSE [base EXCEPT !.status = "val", !.val = a.hp[a.ref].val,
                                      !.sol = [pheno |-> <<>>,
                                               geno |-> <<[name |-> "offspring",
                                                           ref |-> a.ref]>>]]]
       /\ UNCHANGED <<generator, Name, search, pop, tracer, rnd_tracer>>

\* the same for the build of python -O, in which check_immutable is off
DistReturnOptimized(t, op, hp, n, o) ==
    LET a == ApplyOutcome(hp, 1, o)
        base == [NoRet EXCEPT !.op = op, !.input = Deep(hp, Operands(n)),
                              !.debug = FALSE]
    IN /\ heap' = IF o.raised # "" THEN hp ELSE a.hp
       /\ thr' = [thr EXCEPT ![t].pc = "returned"]
       /\ ret' = [ret EXCEPT ![t] =
                    IF o.raised # ""
                    THEN [base EXCEPT !.status = "raise", !.err = o.raised]
                    ELSE [base EXCEPT !.status = "val", !.val = a.hp[a.ref].val,
                                      !.sol = [pheno |-> <<>>,
                                               geno |-> <<[name |-> "offspring",
                                                           ref |-> a.ref]>>]]]
       /\ UNCHANGED <<generator, Name, search, pop, tracer, rnd_tracer>>

DistMutation(t) ==
    /\ thr[t].pc = "idle"
    /\ \E o \in Mutation(heap[1]) : DistReturn(t, "mutation", heap, 1, o)

DistCrossover(t) ==
    /\ thr[t].pc = "idle"
    /\ \E o \in Crossover(heap, 1, 2) : DistReturn(t, "crossover", heap, 2, o)

\* the third operand is another entry recorded by other's call
DistConvexCrossover(t) ==
    /\ thr[t].pc = "idle"
    /\ \E other2 \in {d \in DistInputs \cup SeqInputs :
                          d.fun = heap[2].fun /\ d.args = heap[2].args} :
         \E o \in ConvexCrossover(Append(heap, other2), 1, 2, 3) :
            DistReturn(t, "convex_crossover", Append(heap, other2), 3, o)

DistDistance(t) ==
    /\ thr[t].pc = "idle"
    /\ LET d == Distance(heap[1], heap[2])
           base == [NoRet EXCEPT !.op = "distance", !.input = Deep(heap, Operands(2))]
       IN /\ thr' = [thr EXCEPT ![t].pc = "returned"]
          /\ ret' = [ret EXCEPT ![t] =
                       CASE d.kind = "raise" ->
                              [base EXCEPT !.status = "raise", !.err = d.err]
                         [] d.kind = "tuple" -> [base EXCEPT !.status = "val"]
                         [] d.kind = "num" ->
                              [base EXCEPT !.status = "num", !.num = d.num, !.den = d.den]]
          /\ UNCHANGED <<generator, Name, search, heap, pop, tracer, rnd_tracer>>

\* play(gen, {"0": other}) up to the return of gen's first sampling call,
\* which is made under the name "0" with self's function and arguments
ReplaySample(t) ==
    /\ thr[t].pc = "idle"
    /\ LET recorded == <<[name |-> "0", ref |-> 2]>>
           tr == PlayStart(tracer, recorded)
           fun == heap[1].fun
           args == heap[1].args
       IN \E o \in SampleOutcomes(tr, heap, "0", fun, args) :
            LET r == TracerSample(tr, heap, "0", fun, args, o)
                base == [NoRet EXCEPT !.op = "sample",
                                      !.call = [name |-> "0", fun |-> fun, args |-> args,
                                                how |-> SampleBranch(tr, heap, "0", fun, args)],
                                      !.input = Deep(heap, recorded)]
            IN /\ heap' = r.hp
               /\ tracer' = r.tr
               /\ thr' = [thr EXCEPT ![t].pc = "returned"]
               /\ ret' = [ret EXCEPT ![t] =
                            IF r.raised # ""
                            THEN [base EXCEPT !.status = "raise", !.err = r.raised]
                            ELSE [base EXCEPT !.status = "val", !.val = r.val]]
               /\ UNCHANGED <<generator, Name, search, pop, rnd_tracer>>

\* the offspring self.crossover(other) returned is the entry of a child
\* genotype, and the replay of the child makes other's call under its name
ReplayOffspring(t) ==
    /\ thr[t].pc = "returned"
    /\ ret[t].op = "crossover"
    /\ ret[t].status = "val"
    /\ LET recorded == ret[t].sol.geno
           tr == PlayStart(tracer, recorded)
           fun == heap[2].fun
           args == heap[2].args
       IN \E o \in SampleOutcomes(tr, heap, "offspring", fun, args) :
            LET r == TracerSample(tr, heap, "offspring", fun, args, o)
                base == [NoRet EXCEPT !.op = "sample",
                                      !.call = [name |-> "offspring", fun |-> fun,
                                                args |-> args,
                                                how |-> SampleBranch(tr, heap, "offspring",
                                                                     fun, args)],
                                      !.input = Deep(heap, recorded)]
            IN /\ heap' = r.hp
               /\ tracer' = r.tr
               /\ thr' = [thr EXCEPT ![t].pc = "replayed"]
               /\ ret' = [ret EXCEPT ![t] =
                            IF r.raised # ""
                            THEN [base EXCEPT !.status = "raise", !.err = r.raised]
                            ELSE [base EXCEPT !.status = "val", !.val = r.val]]
               /\ UNCHANGED <<generator, Name, search, pop, rnd_tracer>>

DistNext ==
    \E t \in Threads :
        \/ DistMutation(t)
        \/ DistCrossover(t)
        \/ DistConvexCrossover(t)
        \/ DistDistance(t)
        \/ ReplaySample(t)
        \/ ReplayOffspring(t)

DistSpec == DistInit /\ [][DistNext]_vars

(***************************************************************************)
(* The same for two sequence-selection entries, in the default build and   *)
(* in the build of python -O.                                              *)
(***************************************************************************)
SeqInit ==
    /\ generator = ""
    /\ heap \in {<<self, other>> : self \in SeqInputs, other \in SeqInputs}
    /\ pop = [s \in Slots |-> EmptySlot]
    /\ tracer = TracerInit
    /\ rnd_tracer = RndShared
    /\ Name = NameInit
    /\ search = NoSearch
    /\ thr = [t \in Threads |-> IdleFrame]
    /\ ret = [t \in Threads |-> NoRet]

\* self.crossover(other) under python -O
SeqCrossoverOptimized(t) ==
    /\ thr[t].pc = "idle"
    /\ \E o \in IF heap[1].fun # heap[2].fun THEN BaseCrossover(1, 2)
                ELSE SeqCrossIn(FALSE, heap[1], heap[1].val, heap[2].val) :
         DistReturnOptimized(t, "crossover", heap, 2, o)

\* self.convex_crossover(other1, other2) under python -O
SeqConvexCrossoverOptimized(t) ==
    /\ thr[t].pc = "idle"
    /\ \E other2 \in {d \in SeqInputs : d.fun = heap[2].fun /\ d.args = heap[2].args} :
         \E o \in IF heap[1].fun # heap[2].fun THEN BaseConvexCrossover(1, 2, 3)
                   ELSE SeqConvexIn(FALSE, heap[1], heap[2], other2) :
            DistReturnOptimized(t, "convex_crossover", Append(heap, other2), 3, o)

SeqNext ==
    \E t \in Threads :
        \/ DistMutation(t)
        \/ DistCrossover(t)
        \/ DistConvexCrossover(t)
        \/ DistDistance(t)
        \/ ReplaySample(t)
        \/ SeqCrossoverOptimized(t)
        \/ SeqConvexCrossoverOptimized(t)

SeqSpec == SeqInit /\ [][SeqNext]_vars

(***************************************************************************)
(* Automatic names (pto/core/automatic_names): AutoPlayTracer, the naming  *)
(* singleton Name and the sampling functions of AutoNamedRandomTraceable   *)
(* under sequential naming (name_type "lin").  rnd is bound to the module- *)
(* level AutoPlayTracer, which tracer stands for here.                     *)
(***************************************************************************)
MaxSeq == 3          \* sampling calls the caller makes outside play

\* A faulty variant: play leaves the naming state as it finds it.
NameKept(nm) == nm

\* AutoPlayTracer.play: Name.__init__() before Tracer.play
NameReset(nm) == NameInit

\* a sampling call of a generator that may leave the name out (name is "" for
\* name=None) and may pass the distribution's parameters by keyword
AutoCall(name, fun, args, kwargs) ==
    [kind |-> "sample", name |-> name, fun |-> fun, args |-> args,
     kwargs |-> kwargs, pheno |-> <<>>]
AutoReturn(pheno) ==
    [kind |-> "return", name |-> "", fun |-> "", args |-> <<>>,
     kwargs |-> FALSE, pheno |-> pheno]

AutoGenerators == {"onemax", "example"}

AutoGenNext(g, hist) ==
    LET n == Len(hist) IN
    CASE g = "onemax" ->     \* [rnd.choice([0, 1]) for i in range(2)]
           IF n < 2 THEN AutoCall("", "choice", ChoiceArgs(<<0, 1>>), FALSE)
           ELSE AutoReturn(hist)
      [] g = "example" ->    \* x = f(0, 1, name='my_name'); y = f(0, 1); z = f(a=0, b=1)
                             \* with f = rnd.uniform
           IF n = 0 THEN AutoCall("my_name", "uniform", UniformArgs(0, 1), FALSE)
           ELSE IF n = 1 THEN AutoCall("", "uniform", UniformArgs(0, 1), FALSE)
           ELSE IF n = 2 THEN AutoCall("", "uniform", UniformArgs(0, 1), TRUE)
           ELSE AutoReturn(hist)

\* _Name.get_seq_name: str(next(self.sequence))
GetSeqName(nm) ==
    [name |-> ToString(nm.sequence), Name |-> [nm EXCEPT !.sequence = @ + 1]]

\* the wrapper of _add_autoname: name or self.get_name()
AddAutoname(nm, name) ==
    IF name # "" THEN [name |-> name, Name |-> nm] ELSE GetSeqName(nm)

\* func_name: the node pushed for the call stays on the stack when the call
\* raises, and is popped when it returns
FuncNameRaised(nm, fun) == [nm EXCEPT !.stack = Append(@, fun)]

AutoIdleFrame ==
    [pc |-> "idle", op |-> "", args |-> <<>>, hist |-> <<>>, log |-> <<>>,
     seq_before |-> 0, held |-> FALSE]

AutoNoRet ==
    [op |-> "", status |-> "none", err |-> "", sol |-> NoSol, log |-> <<>>,
     seq_before |-> 0, held |-> FALSE]

AutoInit ==
    /\ generator \in AutoGenerators
    /\ heap = <<>>
    /\ pop = [s \in Slots |-> EmptySlot]
    /\ tracer = TracerInit
    /\ rnd_tracer = RndShared
    /\ Name = NameInit
    /\ search = NoSearch
    /\ thr = [t \in Threads |-> AutoIdleFrame]
    /\ ret = [t \in Threads |-> AutoNoRet]

\* AutoPlayTracer.play(gen, trace) up to gen(); seq_before and held keep what
\* the caller had done by then: the counter it left and whether it replays a
\* trace it holds
AutoPlay(t, trace, held) ==
    /\ thr[t].pc = "idle"
    /\ SetHeap(heap, pop, PlayStart(tracer, trace), rnd_tracer,
               [thr EXCEPT ![t] = [AutoIdleFrame EXCEPT !.pc = "gen", !.op = "play",
                                                        !.seq_before = Name.sequence,
                                                        !.held = held]],
               [ret EXCEPT ![t] = AutoNoRet])
    /\ Name' = NameReset(Name)
    /\ UNCHANGED <<generator, search>>

\* tracer.play(gen, {})
AutoPlayNew(t) == AutoPlay(t, <<>>, FALSE)

\* tracer.play(gen, trace) for the trace of a Solution the caller holds
AutoPlayHeld(t, s) ==
    /\ pop[s].full
    /\ AutoPlay(t, pop[s].geno, TRUE)

\* the exception leaves the sampling function, the generator and play
AutoRaise(t, hp, tr, nm, entry, err) ==
    /\ SetHeap(hp, pop, tr, rnd_tracer,
               [thr EXCEPT ![t] = [AutoIdleFrame EXCEPT !.pc = "returned"]],
               [ret EXCEPT ![t] =
                  [AutoNoRet EXCEPT !.op = thr[t].op, !.status = "raise", !.err = err,
                                    !.log = Append(thr[t].log, entry),
                                    !.seq_before = thr[t].seq_before,
                                    !.held = thr[t].held]])
    /\ Name' = nm
    /\ UNCHANGED <<generator, search>>

\* the generator, running inside play, makes its next sampling call on the
\* automatically named rnd
AutoGenSample(t) ==
    /\ thr[t].pc = "gen"
    /\ LET nx == AutoGenNext(generator, thr[t].hist)
           a == AddAutoname(Name, nx.name)
           entry == [name |-> a.name, auto |-> nx.name = "", how |-> "raise",
                     val |-> <<>>]
       IN /\ nx.kind = "sample"
          /\ IF nx.kwargs
             THEN \* traceable(*args, name=None) takes no other keyword
                  AutoRaise(t, heap, tracer, FuncNameRaised(a.Name, nx.fun), entry,
                            "TypeError")
             ELSE \E o \in SampleOutcomes(tracer, heap, a.name, nx.fun, nx.args) :
                    LET r == TracerSample(tracer, heap, a.name, nx.fun, nx.args, o)
                        how == SampleBranch(tracer, heap, a.name, nx.fun, nx.args)
                    IN IF r.raised # ""
                       THEN AutoRaise(t, r.hp, r.tr, FuncNameRaised(a.Name, nx.fun),
                                      entry, r.raised)
                       ELSE /\ heap' = r.hp
                            /\ tracer' = r.tr
                            /\ Name' = a.Name
                            /\ thr' = [thr EXCEPT
                                         ![t].hist = Append(@, r.val),
                                         ![t].log = Append(@, [entry EXCEPT !.how = how,
                                                                            !.val = r.val])]
                            /\ UNCHANGED <<generator, pop, rnd_tracer, ret, search>>

\* the generator returns: play hands back (solution, result_trace)
AutoGenReturn(t) ==
    /\ thr[t].pc = "gen"
    /\ LET nx == AutoGenNext(generator, thr[t].hist)
       IN /\ nx.kind = "return"
          /\ SetHeap(heap, pop, PlayEnd(tracer), rnd_tracer,
                     [thr EXCEPT ![t] = [AutoIdleFrame EXCEPT !.pc = "returned"]],
                     [ret EXCEPT ![t] =
                        [AutoNoRet EXCEPT !.op = thr[t].op, !.status = "sol",
                                          !.sol = [pheno |-> nx.pheno,
                                                   geno |-> PlayResult(tracer)],
                                          !.log = thr[t].log,
                                          !.seq_before = thr[t].seq_before,
                                          !.held = thr[t].held]])
          /\ UNCHANGED <<generator, Name, search>>

\* the caller keeps the Solution play returned in slot dest
AutoKeep(t, dest) ==
    /\ thr[t].pc = "returned"
    /\ ret[t].status = "sol"
    /\ SetHeap(heap,
               [pop EXCEPT ![dest] = [full |-> TRUE, pheno |-> ret[t].sol.pheno,
                                      geno |-> ret[t].sol.geno]],
               tracer, rnd_tracer, [thr EXCEPT ![t] = AutoIdleFrame],
               [ret EXCEPT ![t] = AutoNoRet])
    /\ UNCHANGED <<generator, Name, search>>

\* the caller goes on without the result (or after the exception)
AutoDrop(t) ==
    /\ thr[t].pc = "returned"
    /\ SetHeap(heap, pop, tracer, rnd_tracer, [thr EXCEPT ![t] = AutoIdleFrame],
               [ret EXCEPT ![t] = AutoNoRet])
    /\ UNCHANGED <<generator, Name, search>>

\* an automatically named sampling call made outside any play: rnd.choice([0, 1])
AutoIdleSample(t) ==
    /\ thr[t].pc = "idle"
    /\ Name.sequence < MaxSeq
    /\ LET a == AddAutoname(Name, "")
       IN \E o \in SampleOutcomes(tracer, heap, a.name, "choice", ChoiceArgs(<<0, 1>>)) :
            LET r == TracerSample(tracer, heap, a.name, "choice", ChoiceArgs(<<0, 1>>), o)
            IN /\ SetHeap(r.hp, pop, r.tr, rnd_tracer, thr, ret)
               /\ Name' = IF r.raised # "" THEN FuncNameRaised(a.Name, "choice")
                          ELSE a.Name
               /\ UNCHANGED <<generator, search>>

AutoNext ==
    \E t \in Threads :
        \/ AutoPlayNew(t)
        \/ \E s \in Slots : AutoPlayHeld(t, s)
        \/ AutoGenSample(t)
        \/ AutoGenReturn(t)
        \/ \E dest \in Slots : AutoKeep(t, dest)
        \/ AutoDrop(t)
        \/ AutoIdleSample(t)

AutoSpec == AutoInit /\ [][AutoNext]_vars

(***************************************************************************)
(* hill_climber (pto/solvers/hill_climber.py).  The individual is held in  *)
(* slot First; search keeps the parameters the hill_climber was built with *)
(* and the local variables of __call__.  The operators it calls are the    *)
(* ones above; the callback returns what it likes.                         *)
(***************************************************************************)
MaxGen == 2          \* n_generation is at most this

\* fitness = sum, on a phenotype that is a list of numbers
RECURSIVE Fitness(_)
Fitness(pheno) ==
    IF pheno = <<>> THEN 0 ELSE pheno[1][1] + Fitness(Tail(pheno))

\* A faulty variant: the offspring always replaces the individual.
BetterLast(better, fi, fo) == 2

\* self.better([(individual, fi), (offspring, fo)], key=lambda x: x[1]): the
\* position of the pair chosen; max and min return the first of equal items
Better(better, fi, fo) ==
    IF better = "max" THEN (IF fo > fi THEN 2 ELSE 1)
    ELSE (IF fo < fi THEN 2 ELSE 1)

HillGenerators == {"onemax", "int_dep", "no_rnd"}

\* hill_climber(op, better, callback, n_generation, mutation)
HillInit ==
    /\ generator \in HillGenerators
    /\ heap = <<>>
    /\ pop = [s \in Slots |-> EmptySlot]
    /\ tracer = TracerInit
    /\ rnd_tracer = RndShared
    /\ Name = NameInit
    /\ thr = [t \in Threads |-> IdleFrame]
    /\ ret = [t \in Threads |-> NoRet]
    /\ \E b \in {"max", "min"}, n \in 0..MaxGen,
          m \in {"mutate_position_wise_ind", "mutate_point_ind"} :
         search = [NoSearch EXCEPT !.pc = "create", !.better = b, !.mutation = m,
                                   !.n_generation = n]

\* individual = self.op.create_ind()
HcCreateInd(t) ==
    /\ search.pc = "create"
    /\ CreateInd(t)

\* the initial solution is evaluated and reported; what the callback returns
\* here is not looked at
HcInitial(t) ==
    /\ search.pc = "create"
    /\ thr[t].pc = "returned"
    /\ ret[t].status = "sol"
    /\ LET f == Fitness(ret[t].sol.pheno)
       IN /\ SetHeap(heap,
                     [pop EXCEPT ![First] = [full |-> TRUE, pheno |-> ret[t].sol.pheno,
                                             geno |-> ret[t].sol.geno]],
                     tracer, rnd_tracer, [thr EXCEPT ![t] = IdleFrame],
                     [ret EXCEPT ![t] = NoRet])
          /\ search' = [search EXCEPT
                          !.pc = IF search.n_generation = 0 THEN "done" ELSE "loop",
                          !.fitness_individual = f,
                          !.history = <<f>>,
                          !.evaluated = {f}]
          /\ UNCHANGED <<generator, Name>>

\* offspring = self.op.mutate_ind(individual)
HcMutatePositionWise(t) ==
    /\ search.pc = "loop"
    /\ search.mutation = "mutate_position_wise_ind"
    /\ MutatePositionWiseInd(t, First)

HcMutatePoint(t) ==
    /\ search.pc = "loop"
    /\ search.mutation = "mutate_point_ind"
    /\ MutatePointInd(t, First)

\* the offspring is evaluated, better chooses, the callback says whether to
\* stop (stop) and the loop goes on or ends
HcSelect(t, stop) ==
    /\ search.pc = "loop"
    /\ thr[t].pc = "returned"
    /\ ret[t].status = "sol"
    /\ LET fo == Fitness(ret[t].sol.pheno)
           pick == Better(search.better, search.fitness_individual, fo)
           f == IF pick = 2 THEN fo ELSE search.fitness_individual
           last == search.gen + 1 = search.n_generation
       IN /\ SetHeap(heap,
                     IF pick = 2
                     THEN [pop EXCEPT ![First] = [full |-> TRUE,
                                                  pheno |-> ret[t].sol.pheno,
                                                  geno |-> ret[t].sol.geno]]
                     ELSE pop,
                     tracer, rnd_tracer, [thr EXCEPT ![t] = IdleFrame],
                     [ret EXCEPT ![t] = NoRet])
          /\ search' = [search EXCEPT
                          !.pc = IF stop \/ last THEN "done" ELSE "loop",
                          !.gen = IF stop THEN @ ELSE @ + 1,
                          !.fitness_individual = f,
                          !.history = Append(@, f),
                          !.evaluated = @ \cup {fo},
                          !.stopped = stop]
          /\ UNCHANGED <<generator, Name>>

\* an exception of create_ind or mutate_ind leaves __call__
HcRaise(t) ==
    /\ search.pc \in {"create", "loop"}
    /\ thr[t].pc = "returned"
    /\ ret[t].status = "raise"
    /\ SetHeap(heap, pop, tracer, rnd_tracer, [thr EXCEPT ![t] = IdleFrame],
               [ret EXCEPT ![t] = NoRet])
    /\ search' = [search EXCEPT !.pc = "raised"]
    /\ UNCHANGED <<generator, Name>>

HillNext ==
    \E t \in Threads :
        \/ HcCreateInd(t)
        \/ HcInitial(t)
        \/ HcMutatePositionWise(t)
        \/ HcMutatePoint(t)
        \/ GenSample(t)
        \/ GenReturn(t)
        \/ \E stop \in BOOLEAN : HcSelect(t, stop)
        \/ HcRaise(t)

HillSpec == HillInit /\ [][HillNext]_vars

(***************************************************************************)
(* Two threads of control replaying on the module-level tracer.  Op.tracer *)
(* and RandomTraceable.tracer are the one Tracer object of tracer.py, so   *)
(* the plays of both threads assign its fields and the sampling calls of   *)
(* both generators read them.  A sampling call and each half of play is a  *)
(* step; thread u keeps its Solution in slot u.                            *)
(***************************************************************************)
MaxPlays == 1        \* plays a thread makes

Workers == {1, 2}

ConcGenerators == {"onemax", "conditional"}

WorkerIdle ==
    [pc |-> "idle", plays |-> 0, input |-> <<>>, hist |-> <<>>, log |-> <<>>]

WorkerNoRet ==
    [status |-> "none", err |-> "", sol |-> NoSol, input |-> <<>>, log |-> <<>>]

\* the complete executions of g from hist on, each as the entries an idle
\* tracer.play(g, {}) records and the phenotype it returns
RECURSIVE Executions(_, _, _)
Executions(g, hist, entries) ==
    LET nx == GenNext(g, hist)
    IN IF nx.kind = "return" THEN {[entries |-> entries, pheno |-> nx.pheno]}
       ELSE UNION {Executions(g, Append(hist, v),
                              Append(entries, [name |-> nx.name,
                                               dist |-> [fun |-> nx.fun,
                                                         args |-> nx.args,
                                                         val |-> v]])) :
                     v \in FreshVals(nx.fun, nx.args)}

\* the Solution of execution x, its Dist objects on the heap after position at
HeldSol(x, at) ==
    [full |-> TRUE, pheno |-> x.pheno,
     geno |-> [i \in DOMAIN x.entries |-> [name |-> x.entries[i].name, ref |-> at + i]]]

\* each thread holds a Solution create_ind() returned to it before the two
\* start to replay side by side
ConcInit ==
    /\ generator \in ConcGenerators
    /\ \E x1, x2 \in Executions(generator, <<>>, <<>>) :
         /\ heap = [i \in DOMAIN x1.entries |-> x1.entries[i].dist]
                      \o [i \in DOMAIN x2.entries |-> x2.entries[i].dist]
         /\ pop = <<HeldSol(x1, 0), HeldSol(x2, Len(x1.entries))>>
    /\ tracer = TracerInit
    /\ rnd_tracer = RndShared
    /\ Name = NameInit
    /\ search = NoSearch
    /\ thr = [u \in Workers |-> WorkerIdle]
    /\ ret = [u \in Workers |-> WorkerNoRet]

\* the objects the workers' state refers to, and the state with the others
\* freed
ConcLive(pp, tr, rt) ==
    Dedup(Flatten([u \in 1..Cardinality(Workers) |-> Refs(pp[u].geno)])
          \o Refs(tr.input_trace) \o Refs(tr.output_trace)
          \o Flatten([u \in 1..Cardinality(Workers) |-> Refs(rt[u].sol.geno)]))

ConcSetState(hp, pp, tr, th, rt) ==
    LET live == ConcLive(pp, tr, rt)
    IN /\ heap' = [i \in DOMAIN live |-> hp[live[i]]]
       /\ pop' = [u \in Workers |-> [pp[u] EXCEPT !.geno = Renumber(live, @)]]
       /\ tracer' = [tr EXCEPT !.input_trace = Renumber(live, @),
                               !.output_trace = Renumber(live, @)]
       /\ thr' = th
       /\ ret' = [u \in Workers |-> [rt[u] EXCEPT !.sol.geno = Renumber(live, @)]]
       /\ UNCHANGED <<generator, Name, search, rnd_tracer>>

\* Op.tracer.play(self.generator, trace) up to gen(): the three fields of the
\* shared Tracer are assigned
ConcPlay(u, trace) ==
    /\ thr[u].pc = "idle"
    /\ thr[u].plays < MaxPlays
    /\ ConcSetState(heap, pop, PlayStart(tracer, trace),
                    [thr EXCEPT ![u] = [pc |-> "gen", plays |-> thr[u].plays + 1,
                                        input |-> Deep(heap, trace), hist |-> <<>>,
                                        log |-> <<>>]],
                    [ret EXCEPT ![u] = WorkerNoRet])

\* create_ind()
ConcCreateInd(u) == ConcPlay(u, <<>>)

\* fix_ind(geno) on the genotype of the Solution the thread holds
ConcFixInd(u) ==
    /\ pop[u].full
    /\ ConcPlay(u, pop[u].geno)

\* the generator of thread u makes its next sampling call
ConcGenSample(u) ==
    /\ thr[u].pc = "gen"
    /\ LET nx == GenNext(generator, thr[u].hist)
       IN /\ nx.kind = "sample"
          /\ \E o \in SampleOutcomes(tracer, heap, nx.name, nx.fun, nx.args) :
               LET r == TracerSample(tracer, heap, nx.name, nx.fun, nx.args, o)
                   how == SampleBranch(tracer, heap, nx.name, nx.fun, nx.args)
                   entry == [name |-> nx.name, how |-> how, val |-> r.val]
               IN IF r.raised # ""
                  THEN ConcSetState(r.hp, pop, r.tr,
                                    [thr EXCEPT ![u].pc = "returned"],
                                    [ret EXCEPT ![u] =
                                       [WorkerNoRet EXCEPT !.status = "raise",
                                                           !.err = r.raised,
                                                           !.input = thr[u].input,
                                                           !.log = Append(thr[u].log, entry)]])
                  ELSE ConcSetState(r.hp, pop, r.tr,
                                    [thr EXCEPT ![u].hist = Append(@, r.val),
                                                ![u].log = Append(@, entry)],
                                    ret)

\* the generator of thread u returns: play reads self.output_trace, clears
\* self.active and hands back (solution, result_trace)
ConcGenReturn(u) ==
    /\ thr[u].pc = "gen"
    /\ LET nx == GenNext(generator, thr[u].hist)
       IN /\ nx.kind = "return"
          /\ ConcSetState(heap, pop, PlayEnd(tracer),
                          [thr EXCEPT ![u].pc = "returned"],
                          [ret EXCEPT ![u] =
                             [WorkerNoRet EXCEPT !.status = "sol",
                                                 !.sol = [pheno |-> nx.pheno,
                                                          geno |-> PlayResult(tracer)],
                                                 !.input = thr[u].input,
                                                 !.log = thr[u].log]])

\* the thread keeps the Solution it got
ConcKeep(u) ==
    /\ thr[u].pc = "returned"
    /\ ret[u].status = "sol"
    /\ ConcSetState(heap,
                    [pop EXCEPT ![u] = [full |-> TRUE, pheno |-> ret[u].sol.pheno,
                                        geno |-> ret[u].sol.geno]],
                    tracer,
                    [thr EXCEPT ![u] = [WorkerIdle EXCEPT !.plays = thr[u].plays]],
                    [ret EXCEPT ![u] = WorkerNoRet])

\* the thread goes on after the exception
ConcDrop(u) ==
    /\ thr[u].pc = "returned"
    /\ ret[u].status = "raise"
    /\ ConcSetState(heap, pop, tracer,
                    [thr EXCEPT ![u] = [WorkerIdle EXCEPT !.plays = thr[u].plays]],
                    [ret EXCEPT ![u] = WorkerNoRet])

ConcNext ==
    \E u \in Workers :
        \/ ConcCreateInd(u)
        \/ ConcFixInd(u)
        \/ ConcGenSample(u)
        \/ ConcGenReturn(u)
        \/ ConcKeep(u)
        \/ ConcDrop(u)

ConcSpec == ConcInit /\ [][ConcNext]_vars

(***************************************************************************)
(* Properties.  A call's result is in ret[t] while thr[t].pc = "returned": *)
(* before and after are repr(args) at the call and at the return, input is *)
(* the trace handed to play, log the sampling calls of the run in order.   *)
(***************************************************************************)
LogNames(log) == [i \in DOMAIN log |-> log[i].name]
DeepNames(entries) == {entries[i].name : i \in DOMAIN entries}
DeepVal(entries, name) ==
    entries[CHOOSE i \in DOMAIN entries : entries[i].name = name].dist.val
Distinct(names) ==
    \A i, j \in DOMAIN names : names[i] = names[j] => i = j

\* C1: round trip.  play(G, {}) = (p, t) followed by play(G, t) = (p2, t2)
\* returns, with p2 = p, the names of t2 those of t, and under every name the
\* value of t.
RoundTrip ==
    \A t \in Threads :
        (ret[t].op = "fix_ind" /\ ret[t].origins[1] = "create_ind") =>
            /\ ret[t].status = "sol"
            /\ ret[t].sol.pheno = ret[t].before[1].pheno
            /\ KeySet(ret[t].sol.geno) = DeepNames(ret[t].before[1].geno)
            /\ \A name \in KeySet(ret[t].sol.geno) :
                 heap[Get(ret[t].sol.geno, name)].val
                     = DeepVal(ret[t].before[1].geno, name)

\* the replay of a created Solution with two entries has returned
RoundTripWitness ==
    \E t \in Threads :
        /\ ret[t].op = "fix_ind" /\ ret[t].origins[1] = "create_ind"
        /\ ret[t].status = "sol"
        /\ Len(ret[t].sol.geno) >= 2

\* C2: fix idempotence.  With s the Solution fix_ind returned for whatever
\* trace, fix_ind(s.geno) returns s.pheno and a genotype equal to s.geno name
\* for name, kind, parameters and value, in the same order, and its replay
\* takes every entry over as recorded: none is repaired or sampled.
FixIdempotent ==
    \A t \in Threads :
        ret[t].op = "fix_ind" =>
            /\ ret[t].status = "sol"
            /\ ret[t].sol.pheno = ret[t].before[1].pheno
            /\ Deep(heap, ret[t].sol.geno) = ret[t].before[1].geno
            /\ \A i \in DOMAIN ret[t].log : ret[t].log[i].how = "reuse"

\* the replayed Solution came from a mutation whose own replay had to repair
\* an entry
FixIdempotentWitness ==
    \E t \in Threads :
        /\ ret[t].op = "fix_ind" /\ ret[t].status = "sol"
        /\ ret[t].origins[1] \in {"mutate_point_ind", "crossover_uniform_ind"}
        /\ "repair" \in Range(ret[t].origins)
        /\ Len(ret[t].sol.geno) >= 2

Pruning ==
    \A t \in Threads :
        ret[t].status = "sol" =>
            /\ Keys(ret[t].sol.geno) = LogNames(ret[t].log)
            /\ \A name \in DeepNames(ret[t].input) :
                 name \notin Range(LogNames(ret[t].log)) =>
                     ~Has(ret[t].sol.geno, name)
            /\ \A name \in KeySet(ret[t].sol.geno) :
                 name \in Range(LogNames(ret[t].log))

\* a replay has returned that did not sample a name of its input trace
PruningWitness ==
    \E t \in Threads :
        /\ ret[t].status = "sol"
        /\ ret[t].log # <<>>
        /\ \E name \in DeepNames(ret[t].input) :
             name \notin Range(LogNames(ret[t].log))

\* C5: every sampling call of an active tracer under a new name is settled
\* by fresh sampling, by taking the recorded value over or by repair, and in
\* each case ends with the distribution recorded in the output trace under
\* the name and its value returned to the caller.
SampleRecordsAndReturns ==
    \A t \in Threads :
        /\ thr[t].pc = "gen" =>
             \A i \in DOMAIN thr[t].log :
                /\ thr[t].log[i].how \in {"fresh", "reuse", "repair"}
                /\ Has(tracer.output_trace, thr[t].log[i].name)
                /\ heap[Get(tracer.output_trace, thr[t].log[i].name)].val
                       = thr[t].log[i].val
                /\ thr[t].hist[i] = thr[t].log[i].val
        /\ ret[t].call.how \in {"fresh", "reuse", "repair"} =>
             /\ ret[t].status # "raise"
             /\ Has(tracer.output_trace, ret[t].call.name)

\* C6: idle bypass.  A sampling call made while the tracer is idle returns a
\* value of the distribution's support and leaves the tracer (input trace,
\* output trace, active flag) and every recorded entry as they were,
\* whatever the name.
IdleBypass ==
    [][\A t \in Threads :
          (thr[t].pc = "idle" /\ thr'[t].pc = "returned" /\ ret'[t].op = "sample"
           /\ ~tracer.active) =>
              /\ tracer' = tracer
              /\ heap' = heap
              /\ ret'[t].status = "val"
              /\ ret'[t].val \in FreshVals(ret'[t].call.fun, ret'[t].call.args)]_vars

\* an idle call has returned whose name is in the traces the last play left
IdleBypassWitness ==
    \E t \in Threads :
        /\ ret[t].op = "sample" /\ ret[t].call.how = "bypass"
        /\ ret[t].status = "val"
        /\ ~tracer.active
        /\ Has(tracer.input_trace, ret[t].call.name)
        /\ Has(tracer.output_trace, ret[t].call.name)

\* C7: the tracer is active exactly while the generator passed to play is
\* executing.
ActiveExactlyInPlay ==
    tracer.active <=> \E t \in Threads : thr[t].pc = "gen"

\* C8: no operator on Solutions changes its parents.  When a mutation, a
\* crossover or distance_ind has returned or raised, every argument has the
\* phenotype and the genotype (names, order, kind, parameters and value of
\* every entry) it had at the call.
SolOps ==
    {"mutate_point_ind", "mutate_position_wise_ind", "mutate_random_ind",
     "crossover_one_point_ind", "crossover_uniform_ind", "convex_crossover_ind",
     "distance_ind"}

ParentsUnchanged ==
    \A t \in Threads :
        ret[t].op \in SolOps => ret[t].after = ret[t].before

\* a mutation of a Solution with two entries has returned a Solution that
\* differs from its parent
ParentsUnchangedWitness ==
    \E t \in Threads :
        /\ ret[t].op \in {"mutate_point_ind", "mutate_position_wise_ind"}
        /\ ret[t].status = "sol"
        /\ Len(ret[t].before[1].geno) >= 2
        /\ Deep(heap, ret[t].sol.geno) # ret[t].before[1].geno

\* C9, as the specification states it: the Solution crossover_uniform_ind
\* returns has the union of its parents' names.
CrossoverKeyLaw ==
    \A t \in Threads :
        (ret[t].op = "crossover_uniform_ind" /\ ret[t].status = "sol") =>
            KeySet(ret[t].sol.geno)
                = DeepNames(ret[t].before[1].geno) \cup DeepNames(ret[t].before[2].geno)

\* C9, amended: the key law holds for a generator that issues the same
\* uniquely named sampling calls on every execution.
CrossoverKeyLawFixed ==
    \A t \in Threads :
        (ret[t].op = "crossover_uniform_ind" /\ ret[t].status = "sol"
         /\ FixedStructure(generator)) =>
            KeySet(ret[t].sol.geno)
                = DeepNames(ret[t].before[1].geno) \cup DeepNames(ret[t].before[2].geno)

\* a uniform crossover of two different parents of such a generator returned
CrossoverKeyLawFixedWitness ==
    \E t \in Threads :
        /\ ret[t].op = "crossover_uniform_ind" /\ ret[t].status = "sol"
        /\ FixedStructure(generator)
        /\ ret[t].before[1] # ret[t].before[2]
        /\ Len(ret[t].sol.geno) >= 2

\* C10: for a generator that issues the same n uniquely named sampling calls
\* on every execution, every Solution returned by create_ind, fix_ind, a
\* mutation or a crossover, and every Solution the caller keeps, has a
\* genotype with exactly those n names.
FixedStructureKept ==
    FixedStructure(generator) =>
        /\ \A t \in Threads :
             ret[t].status = "sol" =>
                /\ KeySet(ret[t].sol.geno) = FixedNames(generator)
                /\ Len(ret[t].sol.geno) = Cardinality(FixedNames(generator))
        /\ \A s \in Slots :
             pop[s].full =>
                /\ KeySet(pop[s].geno) = FixedNames(generator)
                /\ Len(pop[s].geno) = Cardinality(FixedNames(generator))

\* a one-point crossover of such a generator with two names returned a
\* Solution whose replay had to repair an entry
FixedStructureKeptWitness ==
    \E t \in Threads :
        /\ FixedStructure(generator)
        /\ Cardinality(FixedNames(generator)) = 2
        /\ ret[t].op \in {"crossover_one_point_ind", "mutate_point_ind"}
        /\ ret[t].status = "sol"
        /\ \E i \in DOMAIN ret[t].log : ret[t].log[i].how = "repair"

\* the sampling call that returned entry i of a run's log
LogCall(g, log, i) == GenNext(g, [j \in 1..(i - 1) |-> log[j].val])

\* C11: values stay in the support.  Every value a sampling call of an active
\* tracer returned to the generator, in a run started by create_ind, fix_ind,
\* a mutation or a crossover, is a value of the support of the distribution
\* passed in that call: within [min, max] for an integer entry, a member of
\* the candidate sequence for a categorical one.
SampleInSupport ==
    \A t \in Threads :
        /\ \A i \in DOMAIN thr[t].log :
             thr[t].log[i].how # "bypass" =>
                 thr[t].log[i].val
                     \in FreshVals(LogCall(generator, thr[t].log, i).fun,
                                   LogCall(generator, thr[t].log, i).args)
        /\ \A i \in DOMAIN ret[t].log :
             ret[t].log[i].how # "bypass" =>
                 ret[t].log[i].val
                     \in FreshVals(LogCall(generator, ret[t].log, i).fun,
                                   LogCall(generator, ret[t].log, i).args)

\* the Dist a per-entry operator returned, and the Dist a replayed sampling
\* call recorded
Offspring(t) == heap[ret[t].sol.geno[1].ref]
Recorded(t) == heap[Get(tracer.output_trace, ret[t].call.name)]

EntryOps == {"mutation", "crossover", "convex_crossover"}

\* d.val is a value d.fun(*d.args) can return
InSupport(d) == d.val \in FreshVals(d.fun, d.args)

\* C12: integer entries stay on the step grid.  For an integer entry with any
\* step, the value mutation, crossover and convex crossover give the
\* offspring, and the value repair gives an entry from a recorded integer
\* entry, lies within [min, max] at a multiple of step from min.
IntOnGrid ==
    \A t \in Threads :
        /\ (ret[t].op \in EntryOps /\ ret[t].status = "val"
            /\ Kind(ret[t].input[1].dist.fun) = "int"
            /\ Kind(Offspring(t).fun) = "int") =>
               LET p == IntParams(Offspring(t).fun, Offspring(t).args)
               IN /\ p.min <= Offspring(t).val[1] /\ Offspring(t).val[1] <= p.max
                  /\ (Offspring(t).val[1] - p.min) % p.step = 0
        /\ (ret[t].op = "sample" /\ ret[t].call.how = "repair" /\ ret[t].status = "val"
            /\ Kind(ret[t].call.fun) = "int"
            /\ Kind(ret[t].input[1].dist.fun) = "int") =>
               LET p == IntParams(Recorded(t).fun, Recorded(t).args)
               IN /\ p.min <= Recorded(t).val[1] /\ Recorded(t).val[1] <= p.max
                  /\ (Recorded(t).val[1] - p.min) % p.step = 0

\* C13: distance_ind(x, x) is 0 and distance_ind(x, y) is a number >= 0, for
\* Solutions of one generator whose entries are of any kind.
DistanceLaw ==
    \A t \in Threads :
        ret[t].op = "distance_ind" =>
            /\ ret[t].status = "num"
            /\ ret[t].num >= 0 /\ ret[t].den > 0
            /\ ret[t].before[1] = ret[t].before[2] => ret[t].num = 0

\* C14: an Op built with an explicit tracer argument T, the Tracer its
\* generator's sampling calls go to, runs every replay on T: while the
\* generator executes inside a play of the Op, T is the active tracer, the
\* module-level tracer is not, and no sampling call of the run bypasses
\* tracing.
ReplaysOnOwnTracer ==
    rnd_tracer.own =>
        \A t \in Threads :
            /\ thr[t].pc = "gen" => (rnd_tracer.active /\ ~tracer.active)
            /\ \A i \in DOMAIN thr[t].log : thr[t].log[i].how # "bypass"
            /\ \A i \in DOMAIN ret[t].log : ret[t].log[i].how # "bypass"

\* C16: the one-point cut.  With c the cut crossover_one_point_ind drew in
\* 0..len(alignment), the genotype it hands to fix_ind holds, under the
\* aligned name at position pos (counted from 0), the entry of parent 1 when
\* pos < c and the entry of parent 2 when pos >= c.
OnePointCut ==
    \A t \in Threads :
        (thr[t].pc = "gen" /\ thr[t].op = "crossover_one_point_ind") =>
            /\ thr[t].crossover_point \in 0..Len(thr[t].alignment)
            /\ \A i \in DOMAIN thr[t].alignment :
                 Get(tracer.input_trace, thr[t].alignment[i])
                     = Get(thr[t].args[IF i - 1 < thr[t].crossover_point THEN 1 ELSE 2].geno,
                           thr[t].alignment[i])

CrossOps == {"crossover_one_point_ind", "crossover_uniform_ind", "convex_crossover_ind"}

\* the names of parent k in repr(args), in order, and the names all parents have
ParentKeys(b, k) == [i \in DOMAIN b[k].geno |-> b[k].geno[i].name]
Common(b) == {n \in Range(ParentKeys(b, 1)) : \A k \in DOMAIN b : n \in Range(ParentKeys(b, k))}

\* parent k lists two common names the other way round than parent 1
Inverted(b, k) ==
    \E x, y \in Common(b) :
        /\ IndexOf(ParentKeys(b, 1), x) < IndexOf(ParentKeys(b, 1), y)
        /\ IndexOf(ParentKeys(b, k), x) > IndexOf(ParentKeys(b, k), y)

\* the call raised before anything was handed to fix_ind
RaisedAtAlignment(r) ==
    r.status = "raise" /\ r.err = "AssertionError" /\ r.input = <<>> /\ r.log = <<>>

\* C15: alignment.  The list _align_genotypes returns to a crossover holds
\* the names every parent has, each once, in the order of the first parent;
\* in a debug build the crossover raises AssertionError exactly when another
\* parent lists two common names the other way round, and then it returns no
\* child.
AlignLaw ==
    \A t \in Threads :
        /\ (thr[t].pc = "gen" /\ thr[t].op \in CrossOps) =>
              /\ Range(thr[t].alignment) = Common(thr[t].before)
              /\ Distinct(thr[t].alignment)
              /\ \A i, j \in DOMAIN thr[t].alignment :
                   i < j => IndexOf(ParentKeys(thr[t].before, 1), thr[t].alignment[i])
                              < IndexOf(ParentKeys(thr[t].before, 1), thr[t].alignment[j])
              /\ \A k \in 2..Len(thr[t].before) : ~Inverted(thr[t].before, k)
        /\ ret[t].op \in CrossOps =>
              /\ (\E k \in 2..Len(ret[t].before) : Inverted(ret[t].before, k))
                     <=> RaisedAtAlignment(ret[t])
              /\ RaisedAtAlignment(ret[t]) => ret[t].sol = NoSol

\* a convex crossover raised because its third parent has the common names
\* in another order, the second parent having them in the order of the first
AlignLawWitness ==
    \E t \in Threads :
        /\ ret[t].op = "convex_crossover_ind"
        /\ RaisedAtAlignment(ret[t])
        /\ Inverted(ret[t].before, 3)
        /\ ~Inverted(ret[t].before, 2)
        /\ Cardinality(Common(ret[t].before)) = 3

\* the parents of the crossover thread t is in, and the references they hold
Parents(t) == [k \in DOMAIN thr[t].args |-> thr[t].args[k].geno]
ParentRefs(t) == UNION {Range(Refs(Parents(t)[k])) : k \in DOMAIN Parents(t)}

\* the last parent that has name n
LastWith(t, n) ==
    CHOOSE k \in DOMAIN Parents(t) :
        /\ Has(Parents(t)[k], n)
        /\ \A j \in DOMAIN Parents(t) : Has(Parents(t)[j], n) => j <= k

\* object r is what entry.crossover / entry.convex_crossover of the parents'
\* entries for n can return: one of the operands itself, or a new object that
\* is the first parent's entry with the recombined value
IsRecombination(t, n, r) ==
    \E o \in EntryCross(heap, Parents(t), n) :
        /\ o.raised = ""
        /\ IF o.alias # 0 THEN r = o.alias
           ELSE /\ r \notin ParentRefs(t)
                /\ heap[r] = [heap[Get(Parents(t)[1], n)] EXCEPT !.val = o.val]

\* C17: the genotype handed to fix_ind.  For one-point, uniform and convex
\* crossover its key set is the union of the parents' key sets; the entry of
\* an aligned name is the recombination result (one-point: the entry object
\* of the first or of the second parent; uniform and convex: what the
\* entries' crossover returns), and the entry of a name not common to all
\* parents is the very entry object of the last parent that has the name.
UnionThenOverwrite ==
    \A t \in Threads :
        (thr[t].pc = "gen" /\ thr[t].op \in CrossOps) =>
            /\ KeySet(tracer.input_trace)
                 = UNION {KeySet(Parents(t)[k]) : k \in DOMAIN Parents(t)}
            /\ Distinct(Keys(tracer.input_trace))
            /\ \A n \in KeySet(tracer.input_trace) :
                 IF n \notin Common(thr[t].before)
                 THEN Get(tracer.input_trace, n) = Get(Parents(t)[LastWith(t, n)], n)
                 ELSE IF thr[t].op = "crossover_one_point_ind"
                 THEN Get(tracer.input_trace, n)
                        \in {Get(Parents(t)[1], n), Get(Parents(t)[2], n)}
                 ELSE IsRecombination(t, n, Get(tracer.input_trace, n))

\* a convex crossover handed fix_ind a genotype in which a name only the
\* second and third parent have, with different values, is the third's entry
\* and the common name has the entry of another parent than the first
UnionThenOverwriteWitness ==
    \E t \in Threads :
        /\ thr[t].pc = "gen"
        /\ thr[t].op = "convex_crossover_ind"
        /\ \E n \in KeySet(tracer.input_trace) \ Common(thr[t].before) :
             /\ ~Has(Parents(t)[1], n)
             /\ Has(Parents(t)[2], n)
             /\ Has(Parents(t)[3], n)
             /\ heap[Get(Parents(t)[2], n)] # heap[Get(Parents(t)[3], n)]
             /\ Get(tracer.input_trace, n) = Get(Parents(t)[3], n)
        /\ \E n \in Common(thr[t].before) :
             Get(tracer.input_trace, n) # Get(Parents(t)[1], n)

\* the values adapting the recorded entry other to the call fun(*args) gives,
\* by kind: the linear rescaling of a real or an integer value into the
\* call's support, the reselection of a categorical value
AdaptedVals(fun, args, other) ==
    CASE Kind(fun) = "real" ->
            LET p == RealParams(fun, args)
                q == RealParams(other.fun, other.args)
                offset == RatSub(other.val, Rat(q.min, 1))
            IN IF q.range = 0 THEN {}
               ELSE {RealRepairVal(p, RatAdd(Rat(offset[1] * p.range, offset[2] * q.range),
                                             Rat(p.min, 1)))}
      [] Kind(fun) = "int" ->
            LET p == IntParams(fun, args)
                q == IntParams(other.fun, other.args)
            IN {Scalar(IntRepairVal(p, other.val[1] - q.min, q.step))}
      [] Kind(fun) = "cat" ->
            LET seq == CatSeq(fun, args)
                diff_seq == Range(seq) \ Range(CatSeq(other.fun, other.args))
            IN IF other.val[1] \in Range(seq) THEN {other.val}
               ELSE IF diff_seq # {} THEN {Scalar(v) : v \in diff_seq}
               ELSE {Scalar(v) : v \in Range(seq)}

\* C18: repair within a kind.  When an active sampling call finds a recorded
\* entry of its own kind (both real, both integer or both categorical) that
\* does not match it, the value it returns is the recorded value adapted
\* (rescaled or reselected), whatever the source function of the entry.
AdaptsSameKind ==
    \A t \in Threads :
        (/\ ret[t].op = "sample"
         /\ ret[t].call.how = "repair"
         /\ ret[t].status = "val"
         /\ Kind(ret[t].call.fun) \in {"real", "int", "cat"}
         /\ Kind(ret[t].call.fun) = Kind(ret[t].input[1].dist.fun))
        => ret[t].val \in AdaptedVals(ret[t].call.fun, ret[t].call.args,
                                      ret[t].input[1].dist)

\* C19: repair of a real value.  A real-valued sampling call replayed against
\* a recorded entry of the same source function returns
\* (other.val - other.min) / other.range * range + min clamped into
\* [min, max]: a value within [min, max] for every recorded entry, and 0.75
\* for support [0, 1] and the value 2.5 recorded of [-5, 5].
RealRepairLaw ==
    \A t \in Threads :
        (/\ ret[t].op = "sample"
         /\ ret[t].call.how = "repair"
         /\ Kind(ret[t].call.fun) = "real"
         /\ ret[t].input[1].dist.fun = ret[t].call.fun)
        => LET p == RealParams(ret[t].call.fun, ret[t].call.args)
               q == RealParams(ret[t].input[1].dist.fun, ret[t].input[1].dist.args)
               offset == RatSub(ret[t].input[1].dist.val, Rat(q.min, 1))
               scaled == RatAdd(Rat(offset[1] * p.range, offset[2] * q.range), Rat(p.min, 1))
           IN /\ ret[t].status = "val"
              /\ ret[t].val = IF RatLe(scaled, Rat(p.min, 1)) THEN Rat(p.min, 1)
                              ELSE IF RatLe(Rat(p.max, 1), scaled) THEN Rat(p.max, 1)
                              ELSE scaled
              /\ RatLe(Rat(p.min, 1), ret[t].val)
              /\ RatLe(ret[t].val, Rat(p.max, 1))
              /\ (/\ ret[t].call.args = UniformArgs(0, 1)
                  /\ ret[t].input[1].dist.args = UniformArgs(-5, 5)
                  /\ ret[t].input[1].dist.val = <<5, 2>>) => ret[t].val = <<3, 4>>

\* C20: integer mutation.  Random_int.mutation returns after at most 10
\* passes of its loop for every value and all bounds; the offspring's value
\* equals the parent's or differs from it by exactly one step, it lies within
\* [min, max], and the parent is as it was.
IntMutationLaw ==
    \A t \in Threads :
        (ret[t].op = "mutation" /\ Kind(ret[t].input[1].dist.fun) = "int")
        => LET self == ret[t].input[1].dist
               p == IntParams(self.fun, self.args)
           IN /\ ret[t].status = "val"
              /\ ret[t].attempts \in 1..MutationAttempts
              /\ \/ ret[t].val = self.val
                 \/ Abs(ret[t].val[1] - self.val[1]) = p.step
              /\ p.min <= ret[t].val[1] /\ ret[t].val[1] <= p.max
              /\ heap[1] = self

\* C21: repair of a categorical value.  A choice call replayed against a
\* recorded choice entry with another candidate sequence returns the recorded
\* value if it is a candidate of the call; otherwise a candidate that is not
\* in the recorded entry's sequence if there is one, and otherwise some
\* candidate; the value returned is always a candidate of the call.
CatRepairLaw ==
    \A t \in Threads :
        (/\ ret[t].op = "sample"
         /\ ret[t].call.how = "repair"
         /\ Kind(ret[t].call.fun) = "cat"
         /\ ret[t].input[1].dist.fun = ret[t].call.fun)
        => LET seq == Range(CatSeq(ret[t].call.fun, ret[t].call.args))
               other == ret[t].input[1].dist
               other_seq == Range(CatSeq(other.fun, other.args))
           IN /\ ret[t].status = "val"
              /\ Len(ret[t].val) = 1
              /\ ret[t].val[1] \in seq
              /\ IF other.val[1] \in seq THEN ret[t].val = other.val
                 ELSE IF seq \ other_seq # {} THEN ret[t].val[1] \in seq \ other_seq
                 ELSE TRUE
              /\ Recorded(t).val = ret[t].val

\* choice([0, 1]) was replayed against a recorded choice([1, 2]) entry holding
\* 2 and returned 0, the one candidate the recorded sequence does not have
CatRepairLawWitness ==
    \E t \in Threads :
        /\ ret[t].op = "sample"
        /\ ret[t].call.how = "repair"
        /\ ret[t].call.fun = "choice"
        /\ ret[t].call.args = ChoiceArgs(<<0, 1>>)
        /\ ret[t].input[1].dist
             = [fun |-> "choice", args |-> ChoiceArgs(<<1, 2>>), val |-> Scalar(2)]
        /\ ret[t].status = "val"
        /\ ret[t].val = Scalar(0)

\* how often x occurs in the list s
Count(s, x) == Cardinality({i \in DOMAIN s : s[i] = x})

\* the value of the sequence-selection entry d is one its call can return
LegalSeq(d) ==
    LET p == SeqParams(d.fun, d.args)
    IN CASE d.fun = "shuffle" ->
              /\ Len(d.val) = Len(p.sequence)
              /\ \A x \in Range(p.sequence) \cup Range(d.val) :
                   Count(d.val, x) = Count(p.sequence, x)
         [] d.fun = "sample" ->
              /\ Len(d.val) = p.k
              /\ Range(d.val) \subseteq Range(p.sequence)
              /\ Distinct(d.val)
         [] d.fun = "choices" ->
              /\ Len(d.val) = p.k
              /\ Range(d.val) \subseteq Range(p.sequence)

\* C22: legality of sequence values.  The offspring that mutation, crossover
\* and convex crossover of a sequence-selection entry return holds a legal
\* value: a permutation of the sequence for shuffle; k elements of the
\* population, none repeated, for sample; k elements of the population for
\* choices.
SeqLegality ==
    \A t \in Threads :
        (/\ ret[t].op \in EntryOps
         /\ ret[t].status = "val"
         /\ Kind(ret[t].input[1].dist.fun) = "seq")
        => /\ Kind(Offspring(t).fun) = "seq"
           /\ LegalSeq(Offspring(t))

\* C23: repair of a sequence value.  A shuffle, sample or choices call
\* replayed against a recorded entry of the same function with other
\* parameters returns, without an exception, a legal value: k elements of the
\* call's population, none used twice for shuffle and sample.
SeqRepairLegal ==
    \A t \in Threads :
        (/\ ret[t].op = "sample"
         /\ ret[t].call.how = "repair"
         /\ Kind(ret[t].call.fun) = "seq"
         /\ ret[t].input[1].dist.fun = ret[t].call.fun)
        => /\ ret[t].status = "val"
           /\ LegalSeq([fun |-> ret[t].call.fun, args |-> ret[t].call.args,
                        val |-> ret[t].val])

\* C24: no wrapped function modifies its arguments.  For the per-entry
\* mutation, crossover, convex_crossover and distance, and for the helpers
\* they call, the arguments are the same after the call as before it, and the
\* immutability check never raises its AssertionError on legal operands.
NoModifiedInputs ==
    \A t \in Threads :
        (ret[t].op \in EntryOps \cup {"distance"} /\ ret[t].debug)
        => /\ \A i \in DOMAIN ret[t].input : heap[i] = ret[t].input[i].dist
           /\ ~(ret[t].status = "raise" /\ ret[t].err = "AssertionError")

\* the automatically named sampling calls of a replay, in the order made
AutoEntries(log) == SelectSeq(log, LAMBDA e : e.auto)

\* the sampling calls of the replay thread t is in or has just left
ReplayLog(t) == IF thr[t].pc = "gen" THEN thr[t].log ELSE ret[t].log

\* C25: every AutoPlayTracer.play starts from a fresh naming state.  Inside a
\* replay, before the generator's first sampling call the name stack is empty
\* and the counter is 0; under sequential naming the i-th automatically named
\* sampling call of the replay gets the name str(i-1), so these names are
\* pairwise distinct, whatever sampling calls earlier replays or calls outside
\* play made.
SeqNamesLaw ==
    \A t \in Threads :
        (thr[t].pc = "gen" \/ (thr[t].pc = "returned" /\ ret[t].op = "play"))
        => LET an == AutoEntries(ReplayLog(t))
           IN /\ \A i \in DOMAIN an : an[i].name = ToString(i - 1)
              /\ \A i, j \in DOMAIN an : i # j => an[i].name # an[j].name
              /\ thr[t].pc = "gen" => /\ Name.sequence = Len(an)
                                      /\ Name.stack = <<>>

\* a replay of a held trace, begun when earlier replays and calls outside play
\* had taken the counter to MaxSeq, made two automatically named calls
SeqNamesLawWitness ==
    \E t \in Threads :
        /\ thr[t].pc = "returned"
        /\ ret[t].op = "play"
        /\ ret[t].status = "sol"
        /\ ret[t].held
        /\ ret[t].seq_before = MaxSeq
        /\ Len(AutoEntries(ret[t].log)) = 2
        /\ \A i \in DOMAIN ret[t].log : ret[t].log[i].how = "reuse"

\* fitness a is at least as good as fitness b with respect to better
AsGood(better, a, b) == IF better = "max" THEN a >= b ELSE a <= b

\* C26: hill climbing never loses ground.  From one generation to the next
\* the fitness of the current individual does not get worse with respect to
\* better, and when the loop has ended (after n_generation generations or at
\* the first generation whose callback returned a true value) the individual
\* handed back is the best among the initial one and all offspring evaluated.
HillClimbLaw ==
    /\ \A i \in 1..(Len(search.history) - 1) :
         AsGood(search.better, search.history[i + 1], search.history[i])
    /\ search.pc = "done"
       => /\ pop[First].full
          /\ Fitness(pop[First].pheno) = search.fitness_individual
          /\ \A f \in search.evaluated :
               AsGood(search.better, search.fitness_individual, f)
          /\ search.fitness_individual \in search.evaluated
          /\ Len(search.history) =
               IF search.stopped THEN search.gen + 2 ELSE search.n_generation + 1

\* a run of MaxGen generations that took an offspring and refused another
HillClimbLawWitness ==
    /\ search.pc = "done"
    /\ ~search.stopped
    /\ search.n_generation = MaxGen
    /\ search.history[1] # search.fitness_individual
    /\ \E i \in 1..(Len(search.history) - 1) :
         search.history[i] = search.history[i + 1]
    /\ Cardinality(search.evaluated) > 2

\* what a distance_ind call that has returned handed back, as an outcome
Returned(t) ==
    IF ret[t].status = "raise" THEN DistRaise(ret[t].err)
    ELSE DistNum(ret[t].num, ret[t].den)

\* two outcomes of distance_ind are the same: equal numbers, or the same
\* exception
SameOutcome(a, b) ==
    IF a.kind = "num" /\ b.kind = "num" THEN a.num * b.den = b.num * a.den
    ELSE a.kind = "raise" /\ b.kind = "raise" /\ a.err = b.err

\* C27: distance_ind is symmetric.  Whenever distance_ind(x, y) has returned
\* for two held Solutions x and y of the generator, distance_ind(y, x) gives
\* the same result, also when entries under a common name have the same
\* source function and different parameters.
DistanceSymmetric ==
    \A t \in Threads :
        (thr[t].pc = "returned" /\ ret[t].op = "distance_ind") =>
            \A s1, s2 \in Slots :
                (/\ pop[s1].full /\ pop[s2].full
                 /\ ret[t].before = Snapshot(heap, <<Arg(s1), Arg(s2)>>))
                => \A d \in DistanceInd(heap, pop[s2].geno, pop[s1].geno) :
                     SameOutcome(Returned(t), d)

\* C28: the tracer is idle after a play, also after one the generator left
\* by an exception.  A sampling call made outside any play bypasses tracing:
\* it returns a fresh value, raises nothing on account of names an aborted
\* run left in the output trace, and records nothing; and a play starts the
\* generator on an empty output trace.
IdleAfterAbort ==
    \A t \in Threads :
        /\ (thr[t].pc = "returned" /\ ret[t].op = "sample")
           => /\ ret[t].call.how = "bypass"
              /\ ret[t].status = "val"
              /\ ~Has(tracer.output_trace, ret[t].call.name)
        /\ (thr[t].pc = "gen" /\ thr[t].log = <<>>)
           => tracer.output_trace = <<>>

\* C29: mutation of a Solution with an empty genotype.  For a generator
\* that makes no sampling call, mutate_point_ind and mutate_position_wise_ind
\* return a valid Solution: the generator's phenotype with an empty genotype,
\* and no exception.
EmptyGenotypeMutates ==
    \A t \in Threads :
        (/\ thr[t].pc = "returned"
         /\ ret[t].op \in {"mutate_point_ind", "mutate_position_wise_ind"}
         /\ ret[t].before[1].geno = <<>>)
        => /\ ret[t].status = "sol"
           /\ ret[t].sol.geno = <<>>
           /\ ret[t].sol.pheno = ret[t].before[1].pheno

\* C30: concurrent replays do not share anything.  When two threads replay
\* on the module-level tracer with their sampling calls interleaved in any
\* order, a play that has ended has raised nothing, none of its generator's
\* sampling calls bypassed tracing, every value taken over comes from the
\* play's own input trace, and the trace handed back holds exactly the names
\* its own generator sampled, with the values it got.
ConcurrentReplaysIsolated ==
    \A u \in Workers :
        thr[u].pc = "returned" =>
            /\ ret[u].status = "sol"
            /\ \A i \in DOMAIN ret[u].log :
                 LET e == ret[u].log[i]
                 IN /\ e.how # "bypass"
                    /\ e.how = "reuse"
                       => /\ e.name \in DeepNames(ret[u].input)
                          /\ e.val = DeepVal(ret[u].input, e.name)
            /\ Keys(ret[u].sol.geno) = [i \in DOMAIN ret[u].log |-> ret[u].log[i].name]
            /\ \A i \in DOMAIN ret[u].log :
                 heap[Get(ret[u].sol.geno, ret[u].log[i].name)].val = ret[u].log[i].val

====
